---- MODULE Spec2Model ----
(***************************************************************************)
(* Reconciliation engine of nostr-worlds: the authority hook               *)
(* useSlotActionProcessor polls the relay for SlotAction events (kind      *)
(* 14159), deduplicates them, validates each against the current SlotState *)
(* (kind 31417) and publishes the resulting SlotState.                     *)
(*                                                                         *)
(* Raw events are records [kind, created_at, pubkey, tags]; tags is a      *)
(* sequence of string sequences, as on the wire.  JavaScript `undefined`   *)
(* is Undefined for strings and NoNum for numbers, `null` and an absent    *)
(* object are Null, NaN is a reserved integer.                             *)
(***************************************************************************)
EXTENDS Integers, Sequences, FiniteSets, TLC

\* ---------------------------------------------------------------- bounds
MaxActions == 2      \* SlotAction events ever submitted to the relay
MaxTime    == 2      \* the clock runs over 1..MaxTime (unix seconds)
MaxPasses  == 2      \* processActions() calls that may be in flight at once

\* ------------------------------------------------------ program constants
KindSlotState  == 31417
KindSlotAction == 14159

\* ------------------------------------------------------ JavaScript values
Undefined == "undefined"
NoNum     == 0 - 1000001
NaN       == 0 - 1000000
Null      == [isNull |-> TRUE]

TruthyStr(s) == s # Undefined /\ s # ""
TruthyNum(n) == n # NoNum /\ n # NaN /\ n # 0
IsFinite(n)  == n # NaN /\ n # NoNum

Numerals == 0..(MaxTime + 1)

Digits == <<"0", "1", "2", "3", "4", "5", "6", "7", "8", "9">>

\* Number.prototype.toString() in base 10, for naturals
RECURSIVE NumToString(_)
NumToString(n) ==
    IF n < 10 THEN Digits[n + 1]
    ELSE NumToString(n \div 10) \o Digits[(n % 10) + 1]

\* strings that are not numerals but start with one: parseInt reads the prefix
LenientNumerals == {<<"1x", 1>>, <<"2.5", 2>>}

\* parseInt(s, 10) over the strings of the model
ParseInt(s) ==
    IF \E n \in Numerals : NumToString(n) = s
    THEN CHOOSE n \in Numerals : NumToString(n) = s
    ELSE IF \E p \in LenientNumerals : p[1] = s
         THEN (CHOOSE p \in LenientNumerals : p[1] = s)[2]
         ELSE IF \E a, b \in Numerals : NumToString(a) \o ":" \o NumToString(b) = s
              THEN CHOOSE a \in Numerals :
                       \E b \in Numerals : NumToString(a) \o ":" \o NumToString(b) = s
              ELSE NaN

\* s.split(':') over the strings of the model ("x:y" built from numerals)
SplitColon(s) ==
    IF \E a, b \in Numerals : NumToString(a) \o ":" \o NumToString(b) = s
    THEN CHOOSE parts \in { <<NumToString(a), NumToString(b)>> : a, b \in Numerals } :
             parts[1] \o ":" \o parts[2] = s
    ELSE <<s>>

IncludesColon(s) == Len(SplitColon(s)) > 1

\* ------------------------------------------------------------ tag access
\* tag[i] with JavaScript's 0-based index
TagAt(tag, i) == IF Len(tag) >= i + 1 THEN tag[i + 1] ELSE Undefined

\* event.tags.find(([name]) => name === tagName), <<>> when there is none
FindTag(event, tagName) ==
    LET hits == { i \in 1..Len(event.tags) : TagAt(event.tags[i], 0) = tagName }
    IN  IF hits = {} THEN <<>>
        ELSE event.tags[CHOOSE i \in hits : \A j \in hits : i <= j]

getTag(event, tagName) == TagAt(FindTag(event, tagName), 1)

\* ------------------------------------------------------------- the codec
\* str ? parseInt(str, 10) : undefined
OptInt(str) == IF TruthyStr(str) THEN ParseInt(str) ELSE NoNum

\* a plausible slip: plantedAt left undefined when the planted_at tag is missing
parseSlotState_NoFallback(event) ==
    IF event.kind # KindSlotState THEN Null
    ELSE
    LET d       == getTag(event, "d")
        v       == getTag(event, "v")
        worldId == getTag(event, "world")
        mapId   == getTag(event, "map")
        type    == getTag(event, "type")
        slotTag == FindTag(event, "slot")
    IN  IF slotTag = <<>> THEN Null
        ELSE
        LET twoValues == TagAt(slotTag, 2) # Undefined
            joined    == /\ ~twoValues
                         /\ TruthyStr(TagAt(slotTag, 1))
                         /\ IncludesColon(TagAt(slotTag, 1))
            parts     == SplitColon(TagAt(slotTag, 1))
            slotX     == IF twoValues THEN TagAt(slotTag, 1)
                         ELSE IF joined /\ Len(parts) = 2 THEN parts[1]
                         ELSE Undefined
            slotY     == IF twoValues THEN TagAt(slotTag, 2)
                         ELSE IF joined /\ Len(parts) = 2 THEN parts[2]
                         ELSE Undefined
        IN  IF \/ ~TruthyStr(d) \/ ~TruthyStr(v) \/ ~TruthyStr(worldId)
               \/ ~TruthyStr(mapId) \/ ~TruthyStr(slotX) \/ ~TruthyStr(slotY)
            THEN Null
            ELSE
            LET x == ParseInt(slotX)
                y == ParseInt(slotY)
            IN  IF ~IsFinite(x) \/ ~IsFinite(y) THEN Null
                ELSE IF type = "empty"
                THEN [event |-> event, id |-> d, version |-> v,
                      worldId |-> worldId, mapId |-> mapId,
                      slot |-> [x |-> x, y |-> y],
                      type |-> "empty",
                      status |-> getTag(event, "status"),
                      lastHarvestedAt |-> OptInt(getTag(event, "last_harvested_at")),
                      crop |-> Undefined, stage |-> NoNum, plantedAt |-> NoNum]
                ELSE
                LET crop         == getTag(event, "crop")
                    stageStr     == getTag(event, "stage")
                    plantedAtStr == getTag(event, "planted_at")
                    stage        == IF TruthyStr(stageStr) THEN ParseInt(stageStr) ELSE 0
                IN  IF ~TruthyStr(crop) THEN Null
                    ELSE IF ~IsFinite(stage) THEN Null
                    ELSE [event |-> event, id |-> d, version |-> v,
                          worldId |-> worldId, mapId |-> mapId,
                          slot |-> [x |-> x, y |-> y],
                          type |-> IF TruthyStr(type) THEN type ELSE "plant",
                          status |-> Undefined, lastHarvestedAt |-> NoNum,
                          crop |-> crop, stage |-> stage,
                          plantedAt |-> IF TruthyStr(plantedAtStr)
                                        THEN ParseInt(plantedAtStr)
                                        ELSE NoNum]

parseSlotState(event) ==
    IF event.kind # KindSlotState THEN Null
    ELSE
    LET d       == getTag(event, "d")
        v       == getTag(event, "v")
        worldId == getTag(event, "world")
        mapId   == getTag(event, "map")
        type    == getTag(event, "type")
        slotTag == FindTag(event, "slot")
    IN  IF slotTag = <<>> THEN Null
        ELSE
        LET twoValues == TagAt(slotTag, 2) # Undefined
            joined    == /\ ~twoValues
                         /\ TruthyStr(TagAt(slotTag, 1))
                         /\ IncludesColon(TagAt(slotTag, 1))
            parts     == SplitColon(TagAt(slotTag, 1))
            slotX     == IF twoValues THEN TagAt(slotTag, 1)
                         ELSE IF joined /\ Len(parts) = 2 THEN parts[1]
                         ELSE Undefined
            slotY     == IF twoValues THEN TagAt(slotTag, 2)
                         ELSE IF joined /\ Len(parts) = 2 THEN parts[2]
                         ELSE Undefined
        IN  IF \/ ~TruthyStr(d) \/ ~TruthyStr(v) \/ ~TruthyStr(worldId)
               \/ ~TruthyStr(mapId) \/ ~TruthyStr(slotX) \/ ~TruthyStr(slotY)
            THEN Null
            ELSE
            LET x == ParseInt(slotX)
                y == ParseInt(slotY)
            IN  IF ~IsFinite(x) \/ ~IsFinite(y) THEN Null
                ELSE IF type = "empty"
                THEN [event |-> event, id |-> d, version |-> v,
                      worldId |-> worldId, mapId |-> mapId,
                      slot |-> [x |-> x, y |-> y],
                      type |-> "empty",
                      status |-> getTag(event, "status"),
                      lastHarvestedAt |-> OptInt(getTag(event, "last_harvested_at")),
                      crop |-> Undefined, stage |-> NoNum, plantedAt |-> NoNum]
                ELSE
                LET crop         == getTag(event, "crop")
                    stageStr     == getTag(event, "stage")
                    plantedAtStr == getTag(event, "planted_at")
                    stage        == IF TruthyStr(stageStr) THEN ParseInt(stageStr) ELSE 0
                IN  IF ~TruthyStr(crop) THEN Null
                    ELSE IF ~IsFinite(stage) THEN Null
                    ELSE [event |-> event, id |-> d, version |-> v,
                          worldId |-> worldId, mapId |-> mapId,
                          slot |-> [x |-> x, y |-> y],
                          type |-> IF TruthyStr(type) THEN type ELSE "plant",
                          status |-> Undefined, lastHarvestedAt |-> NoNum,
                          crop |-> crop, stage |-> stage,
                          plantedAt |-> IF TruthyStr(plantedAtStr)
                                        THEN ParseInt(plantedAtStr)
                                        ELSE event.created_at]

parseSlotAction(event) ==
    IF event.kind # KindSlotAction THEN Null
    ELSE
    LET v              == getTag(event, "v")
        worldId        == getTag(event, "world")
        mapId          == getTag(event, "map")
        slotD          == getTag(event, "slot_d")
        action         == getTag(event, "action")
        expectedRevStr == getTag(event, "expected_rev")
        clientNonce    == getTag(event, "client_nonce")
        slotTag        == FindTag(event, "slot")
    IN  IF slotTag = <<>> THEN Null
        ELSE
        LET slotX == TagAt(slotTag, 1)
            slotY == TagAt(slotTag, 2)
        IN  IF \/ ~TruthyStr(v) \/ ~TruthyStr(worldId) \/ ~TruthyStr(mapId)
               \/ ~TruthyStr(slotX) \/ ~TruthyStr(slotY) \/ ~TruthyStr(slotD)
               \/ ~TruthyStr(action) \/ ~TruthyStr(expectedRevStr)
               \/ ~TruthyStr(clientNonce)
            THEN Null
            ELSE
            LET x           == ParseInt(slotX)
                y           == ParseInt(slotY)
                expectedRev == ParseInt(expectedRevStr)
            IN  IF ~IsFinite(x) \/ ~IsFinite(y) THEN Null
                ELSE IF ~IsFinite(expectedRev) THEN Null
                ELSE [event |-> event, version |-> v,
                      worldId |-> worldId, mapId |-> mapId,
                      slot |-> [x |-> x, y |-> y],
                      slotD |-> slotD, action |-> action,
                      expectedRev |-> expectedRev,
                      clientNonce |-> clientNonce,
                      crop |-> getTag(event, "crop")]

\* ---------------------------------------------------------- the revision
getSlotRevision(slotState) ==
    IF slotState.type = "plant" /\ TruthyNum(slotState.plantedAt)
    THEN slotState.plantedAt
    ELSE slotState.event.created_at

\* -------------------------------------------------------- the validator
Valid        == [valid |-> TRUE, reason |-> Undefined]
Invalid(why) == [valid |-> FALSE, reason |-> why]

\* a plausible slip: the harvest branch without its expected_rev comparison
validateHarvest_IgnoresRev(action, currentSlot) ==
    IF currentSlot = Null THEN Invalid("Slot does not exist")
    ELSE IF currentSlot.type # "plant" THEN Invalid("Slot is not a plant")
    ELSE IF ~TruthyStr(currentSlot.crop) THEN Invalid("Slot has no crop")
    ELSE Valid

\* validateAction, the branch action.action === 'harvest'
validateHarvest(action, currentSlot) ==
    IF currentSlot = Null THEN Invalid("Slot does not exist")
    ELSE IF currentSlot.type # "plant" THEN Invalid("Slot is not a plant")
    ELSE IF ~TruthyStr(currentSlot.crop) THEN Invalid("Slot has no crop")
    ELSE IF action.expectedRev # getSlotRevision(currentSlot)
    THEN Invalid("Revision mismatch")
    ELSE Valid

\* a plausible slip: the plant branch without its `type !== 'empty'` check
validatePlant_OnAnyKind(action, currentSlot) ==
    IF ~TruthyStr(action.crop) THEN Invalid("Missing crop identifier")
    ELSE IF currentSlot # Null
    THEN IF action.expectedRev # getSlotRevision(currentSlot)
         THEN Invalid("Revision mismatch")
         ELSE Valid
    ELSE IF action.expectedRev # 0
         THEN Invalid("New slot must have expected_rev=0")
         ELSE Valid

\* validateAction, the branch action.action === 'plant'
validatePlant(action, currentSlot) ==
    IF ~TruthyStr(action.crop) THEN Invalid("Missing crop identifier")
    ELSE IF currentSlot # Null
    THEN IF action.expectedRev # getSlotRevision(currentSlot)
         THEN Invalid("Revision mismatch")
         ELSE IF currentSlot.type # "empty"
         THEN Invalid("Slot is not empty")
         ELSE Valid
    ELSE IF action.expectedRev # 0
         THEN Invalid("New slot must have expected_rev=0")
         ELSE Valid

\* a plausible slip: an action of an unknown kind falls through as valid
validateAction_UnknownPasses(action, currentSlot) ==
    IF action.action = "harvest" THEN validateHarvest(action, currentSlot)
    ELSE IF action.action = "plant" THEN validatePlant(action, currentSlot)
    ELSE Valid

validateAction(action, currentSlot) ==
    IF action.action = "harvest" THEN validateHarvest(action, currentSlot)
    ELSE IF action.action = "plant" THEN validatePlant(action, currentSlot)
    ELSE Invalid("Unknown action type")

\* ------------------------------------------------------------ publishing
\* the unsigned SlotState event applyAction hands to publishEvent:
\* Null when it publishes nothing, Throws when it throws before publishing
Throws == [throws |-> TRUE]

\* a plausible slip: a planted slot written with the legacy stage 1
applyAction_StageOne(action, now) ==
    IF action.action = "harvest"
    THEN [kind |-> KindSlotState, created_at |-> NoNum,
          tags |-> << <<"d", action.slotD>>, <<"v", "1">>,
                      <<"world", action.worldId>>, <<"map", action.mapId>>,
                      <<"slot", NumToString(action.slot.x), NumToString(action.slot.y)>>,
                      <<"type", "empty">>, <<"status", "empty">>,
                      <<"last_harvested_at", NumToString(now)>>,
                      <<"t", action.worldId>> >>]
    ELSE IF action.action = "plant"
    THEN IF ~TruthyStr(action.crop) THEN Throws
         ELSE [kind |-> KindSlotState, created_at |-> NoNum,
               tags |-> << <<"d", action.slotD>>, <<"v", "1">>,
                           <<"world", action.worldId>>, <<"map", action.mapId>>,
                           <<"slot", NumToString(action.slot.x), NumToString(action.slot.y)>>,
                           <<"type", "plant">>, <<"crop", action.crop>>,
                           <<"stage", "1">>, <<"planted_at", NumToString(now)>>,
                           <<"t", action.worldId>> >>]
    ELSE Null

applyAction(action, now) ==
    IF action.action = "harvest"
    THEN [kind |-> KindSlotState, created_at |-> NoNum,
          tags |-> << <<"d", action.slotD>>, <<"v", "1">>,
                      <<"world", action.worldId>>, <<"map", action.mapId>>,
                      <<"slot", NumToString(action.slot.x), NumToString(action.slot.y)>>,
                      <<"type", "empty">>, <<"status", "empty">>,
                      <<"last_harvested_at", NumToString(now)>>,
                      <<"t", action.worldId>> >>]
    ELSE IF action.action = "plant"
    THEN IF ~TruthyStr(action.crop) THEN Throws
         ELSE [kind |-> KindSlotState, created_at |-> NoNum,
               tags |-> << <<"d", action.slotD>>, <<"v", "1">>,
                           <<"world", action.worldId>>, <<"map", action.mapId>>,
                           <<"slot", NumToString(action.slot.x), NumToString(action.slot.y)>>,
                           <<"type", "plant">>, <<"crop", action.crop>>,
                           <<"stage", "0">>, <<"planted_at", NumToString(now)>>,
                           <<"t", action.worldId>> >>]
    ELSE Null

\* useNostrPublish: the timestamp hardening and the signature
MaxFutureOffset == 5 * 60

\* a plausible slip: the provided timestamp taken as it comes
signEvent_Unclamped(t, now, pubkey) ==
    LET provided == t.created_at
        final    == IF provided = NoNum THEN now ELSE provided
    IN  [kind |-> t.kind, created_at |-> final, pubkey |-> pubkey, tags |-> t.tags]

signEvent(t, now, pubkey) ==
    LET provided == t.created_at
        initial  == IF provided = NoNum THEN now ELSE provided
        final    == IF initial > now + MaxFutureOffset THEN now ELSE initial
    IN  [kind |-> t.kind, created_at |-> final, pubkey |-> pubkey, tags |-> t.tags]

GameRelayUrl == "wss://relay.primal.net"

GAME_RELAYS == << [url |-> GameRelayUrl, role |-> "game", required |-> TRUE] >>

RelayUrls(relays) == { relays[i].url : i \in 1..Len(relays) }

\* a plausible slip: `requiredSucceeded.length >= 0` for `> 0`
publishToRelays_NeverThrows(relays, acks) ==
    IF Len(relays) = 0 THEN FALSE
    ELSE
    LET succeeded         == { relays[i].url : i \in { j \in 1..Len(relays) : relays[j].url \in acks } }
        requiredRelays    == { i \in 1..Len(relays) : relays[i].required }
        requiredSucceeded == { i \in requiredRelays : relays[i].url \in succeeded }
    IN  requiredRelays = {} \/ Cardinality(requiredSucceeded) >= 0

\* publishToRelays: acks is the set of relay urls that accepted the event;
\* TRUE when it returns, FALSE when it throws PublishError
publishToRelays(relays, acks) ==
    IF Len(relays) = 0 THEN FALSE
    ELSE
    LET succeeded         == { relays[i].url : i \in { j \in 1..Len(relays) : relays[j].url \in acks } }
        requiredRelays    == { i \in 1..Len(relays) : relays[i].required }
        requiredSucceeded == { i \in requiredRelays : relays[i].url \in succeeded }
    IN  requiredRelays = {} \/ requiredSucceeded # {}

\* ------------------------------------------------------ the modelled world
WorldId   == "w1"
MapId     == "map:w1:farm"
SlotXY    == [x |-> 0, y |-> 0]
SlotD     == "slot:w1:farm:0:0"
SlotIds   == {SlotD}
Authority == "host"                    \* pubkey of the logged-in authority
Pubkeys   == {"alice"}                 \* submitters of SlotActions
Nonces    == {"n1", "n2"}
ActionKinds == {"plant", "harvest", "water"}
Crops     == {"carrot"}

\* a SlotAction event as the intent publishers lay it out (plantSlot,
\* harvestSlot); any writer may submit one with any action and expected_rev
SlotActionEvent(pubkey, clientNonce, action, expectedRev, crop, now) ==
    [kind |-> KindSlotAction, created_at |-> now, pubkey |-> pubkey,
     tags |-> << <<"v", "1">>, <<"world", WorldId>>, <<"map", MapId>>,
                 <<"slot", NumToString(SlotXY.x), NumToString(SlotXY.y)>>,
                 <<"slot_d", SlotD>>, <<"action", action>>,
                 <<"expected_rev", NumToString(expectedRev)>>,
                 <<"client_nonce", clientNonce>> >>
              \o (IF crop = Undefined THEN <<>> ELSE << <<"crop", crop>> >>)
              \o << <<"t", WorldId>> >>]

\* SlotState events that may already be on the relay when the authority starts
InitialSlotEvents ==
    { [kind |-> KindSlotState, created_at |-> 1, pubkey |-> Authority,
       tags |-> << <<"d", SlotD>>, <<"v", "1">>, <<"world", WorldId>>,
                   <<"map", MapId>>, <<"slot", "0", "0">>,
                   <<"type", "empty">>, <<"status", "empty">>,
                   <<"last_harvested_at", "1">>, <<"t", WorldId>> >>],
      [kind |-> KindSlotState, created_at |-> 1, pubkey |-> Authority,
       tags |-> << <<"d", SlotD>>, <<"v", "1">>, <<"world", WorldId>>,
                   <<"map", MapId>>, <<"slot", "0", "0">>,
                   <<"type", "plant">>, <<"crop", "carrot">>, <<"stage", "0">>,
                   <<"planted_at", "1">>, <<"t", WorldId>> >>] }

\* ------------------------------------------------------------------ state
VARIABLES
    clock,        \* Math.floor(Date.now() / 1000)
    log,          \* the relay: SlotAction events (kind 14159), in log order
    relaySlots,   \* the relay: latest SlotState event (kind 31417) per d tag
    cache,        \* query data ['slotstates', world, map]: Null or [slots |-> SlotStates]
    actions,      \* query data ['slotactions', ...]: parsed SlotActions
    processed,    \* processedActionsRef.current
    pass,         \* the processActions() calls in flight
    applied,      \* history: action events whose SlotState publish succeeded
    keyPubs,      \* history: SlotState publishes per dedup key, this run (0..2)
    rejected,     \* history: dedup keys the validator rejected, this run
    failed,       \* history: dedup keys whose apply failed, not evaluated since
    last          \* history: what the step just taken did

vars == <<clock, log, relaySlots, cache, actions, processed, pass,
          applied, keyPubs, rejected, failed, last>>

hist == <<applied, keyPubs, rejected, failed>>

NoStep == [op |-> "none"]

IdlePass == [pc |-> "idle", list |-> <<>>, idx |-> 0, ev |-> Null]

Passes == 1..MaxPasses

\* JavaScript runs to completion: while one pass is executing synchronous
\* code nothing else runs
NoneRunning == \A p \in Passes : pass[p].pc # "run"

actionKey(action) ==
    action.event.pubkey \o ":" \o action.clientNonce \o ":" \o
    action.slotD \o ":" \o action.action

\* the queryFn of the 'slotactions' query: parse, keep what decodes
RECURSIVE ParseActions(_)
ParseActions(events) ==
    IF events = <<>> THEN <<>>
    ELSE LET a == parseSlotAction(Head(events))
         IN  (IF a = Null THEN <<>> ELSE <<a>>) \o ParseActions(Tail(events))

\* the queryFn of useSlotStates: parse, keep the slots of this world and map
RECURSIVE SlotStatesOf(_, _)
SlotStatesOf(ids, slots) ==
    IF ids = {} THEN <<>>
    ELSE LET d == CHOOSE x \in ids : TRUE
             s == IF slots[d] = Null THEN Null ELSE parseSlotState(slots[d])
         IN  (IF s # Null /\ s.worldId = WorldId /\ s.mapId = MapId
              THEN <<s>> ELSE <<>>) \o SlotStatesOf(ids \ {d}, slots)

\* allSlots?.find((s) => s.id === slotD)
CacheFind(data, slotD) ==
    IF data = Null THEN Null
    ELSE LET hits == { i \in 1..Len(data.slots) : data.slots[i].id = slotD }
         IN  IF hits = {} THEN Null
             ELSE data.slots[CHOOSE i \in hits : \A j \in hits : i <= j]

\* relay.query([{kinds: [31417], '#d': [slotD], limit: 1}]) then parseSlotState
PointQuery(slots, slotD) ==
    IF slotD \in DOMAIN slots /\ slots[slotD] # Null
    THEN parseSlotState(slots[slotD])
    ELSE Null

AllKeys ==
    { pk \o ":" \o n \o ":" \o d \o ":" \o k :
        pk \in Pubkeys, n \in Nonces, d \in SlotIds, k \in ActionKinds }

Init ==
    /\ clock = 1
    /\ log = <<>>
    /\ relaySlots \in [SlotIds -> {Null} \cup InitialSlotEvents]
    /\ cache = Null
    /\ actions = <<>>
    /\ processed = {}
    /\ pass = [p \in Passes |-> IdlePass]
    /\ applied = {}
    /\ keyPubs = [k \in AllKeys |-> 0]
    /\ rejected = {}
    /\ failed = {}
    /\ last = NoStep

\* ---------------------------------------------------------- environment
\* `last` describes the step just taken; a step with nothing to record clears it
Quiet == last' = NoStep

\* time passes
Tick ==
    /\ NoneRunning
    /\ clock < MaxTime
    /\ clock' = clock + 1
    /\ Quiet
    /\ UNCHANGED <<log, relaySlots, cache, actions, processed, pass, hist>>

\* what clients submit: plant and harvest intents with any expected_rev, a
\* plant without a crop, an action of an unknown kind
Intents ==
    { <<k, rev, crop>> \in ActionKinds \X (0..MaxTime) \X (Crops \cup {Undefined}) :
        \/ k = "plant" /\ (crop # Undefined \/ rev = 0)
        \/ k = "harvest" /\ crop = Undefined
        \/ k = "water" /\ crop = Undefined /\ rev = 0 }

\* some client publishes a SlotAction event to the relay (the relay keeps one
\* copy of an event; nonces are opaque, so fresh ones are drawn in order)
Submit ==
    /\ NoneRunning
    /\ Len(log) < MaxActions
    /\ \E pk \in Pubkeys, n \in Nonces, i \in Intents :
         LET e == SlotActionEvent(pk, n, i[1], i[2], i[3], clock)
         IN  /\ \A j \in 1..Len(log) : log[j] # e
             /\ n = "n2" => \E j \in 1..Len(log) : getTag(log[j], "client_nonce") = "n1"
             /\ log' = Append(log, e)
    /\ Quiet
    /\ UNCHANGED <<clock, relaySlots, cache, actions, processed, pass, hist>>

\* the 'slotstates' query (useSlotStates) refetches: on mount, on focus, or
\* some time after invalidateQueries
RefreshCache ==
    /\ NoneRunning
    /\ cache' = [slots |-> SlotStatesOf(SlotIds, relaySlots)]
    /\ cache' # cache
    /\ Quiet
    /\ UNCHANGED <<clock, log, relaySlots, actions, processed, pass, hist>>

\* the page is reloaded: refs, query data and pending promises are gone
Restart ==
    /\ NoneRunning
    /\ \/ processed # {} \/ actions # <<>> \/ cache # Null
       \/ \E p \in Passes : pass[p] # IdlePass
    /\ processed' = {}
    /\ actions' = <<>>
    /\ cache' = Null
    /\ pass' = [p \in Passes |-> IdlePass]
    /\ keyPubs' = [k \in AllKeys |-> 0]
    /\ rejected' = {}
    /\ failed' = {}
    /\ last' = [op |-> "restart"]
    /\ UNCHANGED <<clock, log, relaySlots, applied>>

\* ------------------------------------------------------- the poll cycle
FreePass == CHOOSE p \in Passes : pass[p].pc = "idle" /\
                \A q \in Passes : pass[q].pc = "idle" => p <= q

\* a fetched action whose apply failed and that is still undecided
RetryDue(list) ==
    \E i \in 1..Len(list) : /\ actionKey(list[i]) \in failed
                            /\ actionKey(list[i]) \notin processed

\* The 'slotactions' query refetches (refetchInterval).  useQuery keeps the
\* previous data when the result is deep-equal to it, so the useEffect, whose
\* dependency is `actions`, runs processActions() only when the result differs.
Poll ==
    /\ NoneRunning
    /\ LET fetched == ParseActions(log)
       IN  IF fetched = actions
           THEN /\ RetryDue(actions)
                /\ \A p \in Passes : pass[p].pc = "idle"
                /\ last # [op |-> "poll", missed |-> TRUE]
                /\ last' = [op |-> "poll", missed |-> TRUE]
                /\ UNCHANGED <<actions, pass>>
           ELSE /\ \E p \in Passes : pass[p].pc = "idle"
                /\ actions' = fetched
                /\ pass' = IF Len(fetched) = 0 THEN pass
                           ELSE [pass EXCEPT ![FreePass] =
                                   [pc |-> "run", list |-> fetched, idx |-> 1,
                                    ev |-> Null]]
                /\ Quiet
    /\ UNCHANGED <<clock, log, relaySlots, cache, processed, hist>>

\* ------------------------------------------------------ processActions()
\* a plausible slip: the `continue` of the rejection branch is missing, so
\* a rejected Action goes on to applyAction
Evaluate_AppliesRejected(p, action, currentSlot) ==
    LET key    == actionKey(action)
        result == validateAction(action, currentSlot)
        tmpl   == applyAction(action, clock)
    IN  /\ last' = [op |-> "eval", action |-> action, cur |-> currentSlot,
                    latest |-> PointQuery(relaySlots, action.slotD),
                    result |-> result, again |-> action.event \in applied,
                    rejectedBefore |-> key \in rejected]
        /\ processed' = IF ~result.valid THEN processed \cup {key} ELSE processed
        /\ rejected' = IF ~result.valid THEN rejected \cup {key} ELSE rejected
        /\ IF tmpl = Throws
           THEN /\ failed' = failed \cup {key}
                /\ pass' = [pass EXCEPT ![p] =
                              [@ EXCEPT !.pc = "run", !.idx = @ + 1]]
           ELSE IF tmpl = Null
           THEN /\ failed' = failed \ {key}
                /\ pass' = [pass EXCEPT ![p] =
                              [@ EXCEPT !.pc = "run", !.idx = @ + 1]]
           ELSE /\ failed' = failed \ {key}
                /\ pass' = [pass EXCEPT ![p] =
                              [@ EXCEPT !.pc = "publish",
                                        !.ev = signEvent(tmpl, clock, Authority)]]

\* validateAction and what follows it synchronously: a rejection is marked
\* processed and the loop continues; an accepted action calls applyAction,
\* which awaits publishEvent
Evaluate(p, action, currentSlot) ==
    LET key    == actionKey(action)
        result == validateAction(action, currentSlot)
        tmpl   == applyAction(action, clock)
    IN  /\ last' = [op |-> "eval", action |-> action, cur |-> currentSlot,
                    latest |-> PointQuery(relaySlots, action.slotD),
                    result |-> result, again |-> action.event \in applied,
                    rejectedBefore |-> key \in rejected]
        /\ IF ~result.valid
           THEN /\ processed' = IF result.reason # "Slot not loaded yet"
                                THEN processed \cup {key} ELSE processed
                /\ rejected' = rejected \cup {key}
                /\ failed' = failed \ {key}
                /\ pass' = [pass EXCEPT ![p] =
                              [@ EXCEPT !.pc = "run", !.idx = @ + 1]]
           ELSE IF tmpl = Throws
           THEN /\ failed' = failed \cup {key}
                /\ pass' = [pass EXCEPT ![p] =
                              [@ EXCEPT !.pc = "run", !.idx = @ + 1]]
                /\ UNCHANGED <<processed, rejected>>
           ELSE IF tmpl = Null
           THEN /\ processed' = processed \cup {key}
                /\ failed' = failed \ {key}
                /\ pass' = [pass EXCEPT ![p] =
                              [@ EXCEPT !.pc = "run", !.idx = @ + 1]]
                /\ UNCHANGED rejected
           ELSE /\ failed' = failed \ {key}
                /\ pass' = [pass EXCEPT ![p] =
                              [@ EXCEPT !.pc = "publish",
                                        !.ev = signEvent(tmpl, clock, Authority)]]
                /\ UNCHANGED <<processed, rejected>>

\* one iteration of the for loop, up to its first await
Iterate(p) ==
    /\ pass[p].pc = "run"
    /\ IF pass[p].idx > Len(pass[p].list)
       THEN /\ pass' = [pass EXCEPT ![p] = IdlePass]
            /\ Quiet
            /\ UNCHANGED <<processed, rejected, failed>>
       ELSE LET action == pass[p].list[pass[p].idx]
                found  == CacheFind(cache, action.slotD)
            IN  IF actionKey(action) \in processed
                THEN /\ pass' = [pass EXCEPT ![p].idx = @ + 1]
                     /\ Quiet
                     /\ UNCHANGED <<processed, rejected, failed>>
                ELSE IF found = Null
                THEN /\ pass' = [pass EXCEPT ![p].pc = "query"]
                     /\ Quiet
                     /\ UNCHANGED <<processed, rejected, failed>>
                ELSE Evaluate(p, action, found)
    /\ UNCHANGED <<clock, log, relaySlots, cache, actions, applied, keyPubs>>

\* the point query answers
QueryReturn(p) ==
    /\ NoneRunning
    /\ pass[p].pc = "query"
    /\ LET action == pass[p].list[pass[p].idx]
       IN  Evaluate(p, action, PointQuery(relaySlots, action.slotD))
    /\ UNCHANGED <<clock, log, relaySlots, cache, actions, applied, keyPubs>>

\* the point query throws (timeout, relay unreachable): caught, not marked
QueryFail(p) ==
    /\ NoneRunning
    /\ pass[p].pc = "query"
    /\ failed' = failed \cup {actionKey(pass[p].list[pass[p].idx])}
    /\ pass' = [pass EXCEPT ![p] = [@ EXCEPT !.pc = "run", !.idx = @ + 1]]
    /\ last' = [op |-> "queryfail", key |-> actionKey(pass[p].list[pass[p].idx])]
    /\ UNCHANGED <<clock, log, relaySlots, cache, actions, processed,
                   applied, keyPubs, rejected>>

Bump(n) == IF n < 2 THEN n + 1 ELSE 2

\* publishEvent settles: the relays in acks accepted the event
PublishSettle(p) ==
    /\ NoneRunning
    /\ pass[p].pc = "publish"
    /\ \E acks \in SUBSET RelayUrls(GAME_RELAYS) :
         LET action == pass[p].list[pass[p].idx]
             key    == actionKey(action)
             d      == getTag(pass[p].ev, "d")
         IN  /\ last' = [op |-> "publish", key |-> key, acks |-> acks,
                          ok |-> publishToRelays(GAME_RELAYS, acks)]
             /\ relaySlots' = IF GameRelayUrl \in acks /\ d \in DOMAIN relaySlots
                              THEN [relaySlots EXCEPT ![d] = pass[p].ev]
                              ELSE relaySlots
             /\ IF publishToRelays(GAME_RELAYS, acks)
                THEN /\ processed' = processed \cup {key}
                     /\ applied' = applied \cup {action.event}
                     /\ keyPubs' = [keyPubs EXCEPT ![key] = Bump(@)]
                     /\ UNCHANGED failed
                ELSE /\ failed' = failed \cup {key}
                     /\ UNCHANGED <<processed, applied, keyPubs>>
    /\ pass' = [pass EXCEPT ![p] =
                  [@ EXCEPT !.pc = "run", !.idx = @ + 1, !.ev = Null]]
    /\ UNCHANGED <<clock, log, cache, actions, rejected>>

Next ==
    \/ Tick
    \/ Submit
    \/ RefreshCache
    \/ Restart
    \/ Poll
    \/ \E p \in Passes : Iterate(p)
    \/ \E p \in Passes : QueryReturn(p)
    \/ \E p \in Passes : QueryFail(p)
    \/ \E p \in Passes : PublishSettle(p)

Spec == Init /\ [][Next]_vars

\* ------------------------------------------- the validator on its own
\* SlotStates the validator may be handed: what parseSlotState decodes from
\* the events below, a plant whose crop is missing, and no slot at all
SlotEvent(type, crop, plantedAt, createdAt) ==
    [kind |-> KindSlotState, created_at |-> createdAt, pubkey |-> Authority,
     tags |-> << <<"d", SlotD>>, <<"v", "1">>, <<"world", WorldId>>,
                 <<"map", MapId>>, <<"slot", "0", "0">> >>
              \o (IF type = Undefined THEN <<>> ELSE << <<"type", type>> >>)
              \o (IF crop = Undefined THEN <<>> ELSE << <<"crop", crop>> >>)
              \o (IF plantedAt = Undefined THEN <<>> ELSE << <<"planted_at", plantedAt>> >>)
              \o << <<"t", WorldId>> >>]

SampleSlots ==
    {Null}
    \cup { parseSlotState(SlotEvent(type, crop, plantedAt, createdAt)) :
             type \in {"empty", "plant", "rock", Undefined},
             crop \in {"carrot"},
             plantedAt \in {Undefined, "0", "1", "2"},
             createdAt \in 1..MaxTime }
    \cup { [parseSlotState(SlotEvent("plant", "carrot", "1", 1)) EXCEPT !.crop = Undefined] }

SampleActions ==
    { parseSlotAction(SlotActionEvent("alice", "n1", k, rev, crop, 1)) :
        k \in ActionKinds, rev \in 0..MaxTime, crop \in Crops \cup {Undefined} }

Validate ==
    /\ \E action \in SampleActions, slot \in SampleSlots :
         last' = [op |-> "eval", action |-> action, cur |-> slot, latest |-> slot,
                  result |-> validateAction(action, slot), again |-> FALSE,
                  rejectedBefore |-> FALSE]
    /\ UNCHANGED <<clock, log, relaySlots, cache, actions, processed, pass, hist>>

ValidatorSpec == Init /\ [][Validate]_vars

\* ------------------------------------- one Action through the pipeline
\* mapId.split(':').pop() over the map ids of the model
MapSuffixes == { <<MapId, "farm">> }

LastSegment(mapId) ==
    IF \E m \in MapSuffixes : m[1] = mapId
    THEN (CHOOSE m \in MapSuffixes : m[1] = mapId)[2]
    ELSE mapId

\* the Slot id the intent publishers derive for a cell of a map
SlotDOf(worldId, mapId, x, y) ==
    "slot:" \o worldId \o ":" \o LastSegment(mapId) \o ":" \o
    NumToString(x) \o ":" \o NumToString(y)

\* a SlotAction event with any tag values: the relay accepts events from
\* any writer, whatever their slot tag says about the target of slot_d
ActionEvent(pubkey, clientNonce, xy, slotD, action, expectedRev, crop, now) ==
    [kind |-> KindSlotAction, created_at |-> now, pubkey |-> pubkey,
     tags |-> << <<"v", "1">>, <<"world", WorldId>>, <<"map", MapId>>,
                 <<"slot", NumToString(xy.x), NumToString(xy.y)>>,
                 <<"slot_d", slotD>>, <<"action", action>>,
                 <<"expected_rev", NumToString(expectedRev)>>,
                 <<"client_nonce", clientNonce>> >>
              \o (IF crop = Undefined THEN <<>> ELSE << <<"crop", crop>> >>)
              \o << <<"t", WorldId>> >>]

SampleActionEvents ==
    { ActionEvent("alice", "n1", xy, SlotD, k, rev, crop, 1) :
        xy \in {SlotXY, [x |-> 1, y |-> 0]},
        k \in ActionKinds, rev \in 0..MaxTime, crop \in Crops \cup {Undefined} }

\* the inputs of one run of the pipeline: a fetched Action event, the Slot the
\* cache or the point query returns for its slot_d, the clock, and the relays
\* that will accept the event
ApplyInputs ==
    { [op |-> "input", e |-> e, cur |-> currentSlot, now |-> now, acks |-> acks] :
        e \in SampleActionEvents, currentSlot \in SampleSlots,
        now \in 1..MaxTime, acks \in SUBSET RelayUrls(GAME_RELAYS) }

ApplyInit ==
    /\ clock = 1
    /\ log = <<>>
    /\ relaySlots = [d \in SlotIds |-> Null]
    /\ cache = Null
    /\ actions = <<>>
    /\ processed = {}
    /\ pass = [p \in Passes |-> IdlePass]
    /\ applied = {}
    /\ keyPubs = [k \in AllKeys |-> 0]
    /\ rejected = {}
    /\ failed = {}
    /\ last \in ApplyInputs

\* processActions() on one fetched Action, from validateAction to the settled
\* publish
Apply ==
    /\ last.op = "input"
    /\ LET action == parseSlotAction(last.e)
           result == validateAction(action, last.cur)
           tmpl   == applyAction(action, last.now)
           ev     == IF result.valid /\ tmpl # Throws /\ tmpl # Null
                     THEN signEvent(tmpl, last.now, Authority) ELSE Null
           ok     == ev # Null /\ publishToRelays(GAME_RELAYS, last.acks)
       IN  /\ action # Null
           /\ last' = [op |-> "apply", action |-> action, cur |-> last.cur,
                       curRev |-> IF last.cur = Null THEN 0
                                  ELSE getSlotRevision(last.cur),
                       result |-> result, now |-> last.now, ev |-> ev, ok |-> ok,
                       out |-> IF ev # Null /\ GameRelayUrl \in last.acks
                               THEN parseSlotState(ev) ELSE last.cur]
    /\ UNCHANGED <<clock, log, relaySlots, cache, actions, processed, pass, hist>>

ApplySpec == ApplyInit /\ [][Apply]_vars

\* ------------------------------------------------- the players' clients
\* usePlantingActions.plantSeed, called when a player picks a seed for a tile
\* on which the view shows no slot: onMutate adds an optimistic slot to the
\* 'slotstates' query data, mutationFn publishes a SlotState event signed by
\* the player, onError restores the previous query data when there was one
plantSeed ==
    /\ CacheFind(cache, SlotD) = Null
    /\ \E pk \in Pubkeys, cropId \in Crops, acks \in SUBSET RelayUrls(GAME_RELAYS) :
         LET slotId == "slot:" \o WorldId \o ":" \o LastSegment(MapId) \o ":" \o
                       NumToString(SlotXY.x) \o ":" \o NumToString(SlotXY.y)
             tmpl   == [kind |-> KindSlotState, created_at |-> NoNum,
                        tags |-> << <<"d", slotId>>, <<"v", "1">>,
                                    <<"world", WorldId>>, <<"map", MapId>>,
                                    <<"slot", NumToString(SlotXY.x), NumToString(SlotXY.y)>>,
                                    <<"type", "plant">>, <<"crop", cropId>>,
                                    <<"stage", "0">>, <<"planted_at", NumToString(clock)>>,
                                    <<"t", WorldId>> >>]
             ev     == signEvent(tmpl, clock, pk)
             ok     == publishToRelays(GAME_RELAYS, acks)
             optimisticSlot ==
                 [event |-> [kind |-> KindSlotState, created_at |-> clock,
                             pubkey |-> "", tags |-> <<>>],
                  id |-> slotId, version |-> "1", worldId |-> WorldId,
                  mapId |-> MapId, slot |-> SlotXY, type |-> "plant",
                  status |-> Undefined, lastHarvestedAt |-> NoNum,
                  crop |-> cropId, stage |-> 0, plantedAt |-> clock,
                  pending |-> TRUE]
             old    == IF cache = Null THEN <<>> ELSE cache.slots
         IN  /\ relaySlots' = IF GameRelayUrl \in acks /\ slotId \in DOMAIN relaySlots
                              THEN [relaySlots EXCEPT ![slotId] = ev]
                              ELSE relaySlots
             /\ cache' = IF ok \/ cache = Null
                         THEN [slots |-> Append(old, optimisticSlot)]
                         ELSE cache
             /\ last' = [op |-> "plantSeed", ok |-> ok, ev |-> ev]
    /\ UNCHANGED <<clock, log, actions, processed, pass, hist>>

\* what the clients do while no authority is processing
ClientNext ==
    \/ Tick
    \/ Submit
    \/ RefreshCache
    \/ plantSeed

ClientSpec == Init /\ [][ClientNext]_vars

\* ------------------------------------------------------ publishToRelays
\* relay lists as GAME_RELAYS may be extended: a game, a backup and a
\* discovery relay, each left out, optional or required
BackupRelayUrl == "wss://relay.ditto.pub"

DiscoveryRelayUrl == "wss://relay.discovery.example"

SampleRelayUrls == <<GameRelayUrl, BackupRelayUrl, DiscoveryRelayUrl>>

RelayRoleOf(url) ==
    IF url = GameRelayUrl THEN "game"
    ELSE IF url = BackupRelayUrl THEN "backup" ELSE "discovery"

RECURSIVE RelayList(_, _)
RelayList(i, use) ==
    IF i > Len(SampleRelayUrls) THEN <<>>
    ELSE LET url == SampleRelayUrls[i]
         IN  (IF use[url] = "absent" THEN <<>>
              ELSE << [url |-> url, role |-> RelayRoleOf(url),
                       required |-> (use[url] = "required")] >>)
             \o RelayList(i + 1, use)

SampleRelayConfigs ==
    { RelayList(1, use) :
        use \in [ {GameRelayUrl, BackupRelayUrl, DiscoveryRelayUrl}
                    -> {"absent", "optional", "required"} ] }

PublishInputs ==
    { [op |-> "input", relays |-> relays, acks |-> acks] :
        relays \in SampleRelayConfigs,
        acks \in SUBSET {GameRelayUrl, BackupRelayUrl, DiscoveryRelayUrl} }

PublishInit ==
    /\ clock = 1
    /\ log = <<>>
    /\ relaySlots = [d \in SlotIds |-> Null]
    /\ cache = Null
    /\ actions = <<>>
    /\ processed = {}
    /\ pass = [p \in Passes |-> IdlePass]
    /\ applied = {}
    /\ keyPubs = [k \in AllKeys |-> 0]
    /\ rejected = {}
    /\ failed = {}
    /\ last \in { i \in PublishInputs : i.acks \subseteq RelayUrls(i.relays) }

\* one call publishToRelays(nostr, event, relays)
Publish ==
    /\ last.op = "input"
    /\ last' = [op |-> "publishToRelays", relays |-> last.relays,
                acks |-> last.acks,
                ok |-> publishToRelays(last.relays, last.acks)]
    /\ UNCHANGED <<clock, log, relaySlots, cache, actions, processed, pass, hist>>

PublishSpec == PublishInit /\ [][Publish]_vars

\* --------------------------------------------------- computeGrowthStage
DEFAULT_STAGE_DURATION_SEC == 300

\* JavaScript numbers: a comparison with NaN is false, arithmetic and
\* Math.min / Math.max on NaN give NaN
JsLess(a, b) == a # NaN /\ b # NaN /\ a < b

JsLessEq(a, b) == a # NaN /\ b # NaN /\ a <= b

JsMinus(a, b) == IF a = NaN \/ b = NaN THEN NaN ELSE a - b

MathMin(a, b) == IF a = NaN \/ b = NaN THEN NaN ELSE IF a < b THEN a ELSE b

MathMax(a, b) == IF a = NaN \/ b = NaN THEN NaN ELSE IF a > b THEN a ELSE b

\* Math.floor(a / b) for b > 0
FloorDiv(a, b) == IF a = NaN \/ b = NaN THEN NaN ELSE a \div b

\* cropMeta is one entry of crops.json as it was fetched: stages,
\* harvestStage and stageDurationSec are not validated (NoNum: left out)
computeGrowthStage(plantedAtSec, nowSec, cropMeta) ==
    IF JsLess(nowSec, plantedAtSec) THEN 0
    ELSE
    LET stageDuration ==
            IF /\ cropMeta.stageDurationSec \notin {NoNum, NaN, 0}
               /\ cropMeta.stageDurationSec > 0
            THEN cropMeta.stageDurationSec
            ELSE DEFAULT_STAGE_DURATION_SEC
        elapsedSec == JsMinus(nowSec, plantedAtSec)
        stageIndex == FloorDiv(elapsedSec, stageDuration)
        maxStage   == JsMinus(cropMeta.stages, 1)
        finalStage == MathMax(0, MathMin(stageIndex, maxStage))
    IN  IF cropMeta.harvestStage # NoNum
        THEN MathMin(finalStage, cropMeta.harvestStage)
        ELSE finalStage

\* planted_at as parseSlotState hands it on (NaN from a malformed tag)
SamplePlantedAt == {NaN, 0, 1000}

SampleNow == {0, 999, 1000, 1150, 1300, 1999, 2300}

SampleCropMeta ==
    [stages : {0, 1, 4},
     harvestStage : {NoNum, 0 - 1, 0, 2, 5},
     stageDurationSec : {NoNum, 0 - 5, 0, 100}]

GrowthInputs ==
    { [op |-> "input", plantedAt |-> plantedAt, now1 |-> now1, now2 |-> now2,
       meta |-> meta] :
        plantedAt \in SamplePlantedAt,
        now1 \in SampleNow, now2 \in SampleNow, meta \in SampleCropMeta }

GrowthInit ==
    /\ clock = 1
    /\ log = <<>>
    /\ relaySlots = [d \in SlotIds |-> Null]
    /\ cache = Null
    /\ actions = <<>>
    /\ processed = {}
    /\ pass = [p \in Passes |-> IdlePass]
    /\ applied = {}
    /\ keyPubs = [k \in AllKeys |-> 0]
    /\ rejected = {}
    /\ failed = {}
    /\ last \in { i \in GrowthInputs : i.now1 <= i.now2 }

\* PlantSprite renders the same plant at two ticks of its clock
Grow ==
    /\ last.op = "input"
    /\ last' = [op |-> "computeGrowthStage", plantedAt |-> last.plantedAt,
                meta |-> last.meta, now1 |-> last.now1, now2 |-> last.now2,
                stage1 |-> computeGrowthStage(last.plantedAt, last.now1, last.meta),
                stage2 |-> computeGrowthStage(last.plantedAt, last.now2, last.meta)]
    /\ UNCHANGED <<clock, log, relaySlots, cache, actions, processed, pass, hist>>

GrowthSpec == GrowthInit /\ [][Grow]_vars

\* ----------------------------------------- computeSecondsUntilNextStage
JsPlus(a, b) == IF a = NaN \/ b = NaN THEN NaN ELSE a + b

JsTimes(a, b) == IF a = NaN \/ b = NaN THEN NaN ELSE a * b

\* the seconds as a record, Null for the `null` of "already fully grown"
Seconds(n) == [isNull |-> FALSE, value |-> n]

computeSecondsUntilNextStage(plantedAtSec, nowSec, cropMeta, currentStage) ==
    LET maxStage == IF cropMeta.harvestStage # NoNum
                    THEN cropMeta.harvestStage
                    ELSE JsMinus(cropMeta.stages, 1)
    IN  IF currentStage # NaN /\ maxStage # NaN /\ currentStage >= maxStage
        THEN Null
        ELSE
        LET stageDuration ==
                IF /\ cropMeta.stageDurationSec \notin {NoNum, NaN, 0}
                   /\ cropMeta.stageDurationSec > 0
                THEN cropMeta.stageDurationSec
                ELSE DEFAULT_STAGE_DURATION_SEC
            nextStageTime ==
                JsPlus(plantedAtSec, JsTimes(JsPlus(currentStage, 1), stageDuration))
        IN  Seconds(MathMax(0, JsMinus(nextStageTime, nowSec)))

\* PlantSprite computes the stage of a plant and the countdown to the next
Countdown ==
    /\ last.op = "input"
    /\ LET computedStage == computeGrowthStage(last.plantedAt, last.now1, last.meta)
       IN  last' = [op |-> "computeSecondsUntilNextStage",
                    plantedAt |-> last.plantedAt, meta |-> last.meta,
                    now |-> last.now1, currentStage |-> computedStage,
                    remaining |-> computeSecondsUntilNextStage(
                                      last.plantedAt, last.now1, last.meta,
                                      computedStage)]
    /\ UNCHANGED <<clock, log, relaySlots, cache, actions, processed, pass, hist>>

CountdownSpec == GrowthInit /\ [][Countdown]_vars

\* ------------------------------------------------- the codec on its own
KindWorldState == 31415

KindMapState == 31416

parseWorldState(event) ==
    IF event.kind # KindWorldState THEN Null
    ELSE
    LET d             == getTag(event, "d")
        v             == getTag(event, "v")
        type          == getTag(event, "type")
        name          == getTag(event, "name")
        renderpackUrl == getTag(event, "renderpack_url")
        entryMap      == getTag(event, "entry_map")
    IN  IF \/ ~TruthyStr(d) \/ ~TruthyStr(v) \/ ~TruthyStr(type)
           \/ ~TruthyStr(name) \/ ~TruthyStr(renderpackUrl) \/ ~TruthyStr(entryMap)
        THEN Null
        ELSE [event |-> event, id |-> d, version |-> v, type |-> type,
              name |-> name, renderpackUrl |-> renderpackUrl,
              entryMap |-> entryMap, season |-> getTag(event, "season")]

\* a plausible slip: the decoder without the test of its discriminant
parseMapState_KindUnchecked(event) ==
    LET d             == getTag(event, "d")
        v             == getTag(event, "v")
        worldId       == getTag(event, "world")
        layout        == getTag(event, "layout")
        renderpackUrl == getTag(event, "renderpack_url")
    IN  IF \/ ~TruthyStr(d) \/ ~TruthyStr(v) \/ ~TruthyStr(worldId)
           \/ ~TruthyStr(layout) \/ ~TruthyStr(renderpackUrl)
        THEN Null
        ELSE [event |-> event, id |-> d, version |-> v, worldId |-> worldId,
              layout |-> layout, renderpackUrl |-> renderpackUrl,
              name |-> getTag(event, "name"),
              description |-> getTag(event, "desc")]

parseMapState(event) ==
    IF event.kind # KindMapState THEN Null
    ELSE
    LET d             == getTag(event, "d")
        v             == getTag(event, "v")
        worldId       == getTag(event, "world")
        layout        == getTag(event, "layout")
        renderpackUrl == getTag(event, "renderpack_url")
    IN  IF \/ ~TruthyStr(d) \/ ~TruthyStr(v) \/ ~TruthyStr(worldId)
           \/ ~TruthyStr(layout) \/ ~TruthyStr(renderpackUrl)
        THEN Null
        ELSE [event |-> event, id |-> d, version |-> v, worldId |-> worldId,
              layout |-> layout, renderpackUrl |-> renderpackUrl,
              name |-> getTag(event, "name"),
              description |-> getTag(event, "desc")]

\* well-formed tag lists of the four kinds of event, for the cell (1, 2)
WorldTags ==
    << <<"d", WorldId>>, <<"v", "1">>, <<"type", "farm">>, <<"name", "Farm">>,
       <<"renderpack_url", "https://packs.example/farm">>,
       <<"entry_map", MapId>>, <<"t", WorldId>> >>

MapTags ==
    << <<"d", MapId>>, <<"v", "1">>, <<"world", WorldId>>,
       <<"layout", "farm.v1">>,
       <<"renderpack_url", "https://packs.example/farm">>, <<"t", WorldId>> >>

PlantSlotTags ==
    << <<"d", SlotDOf(WorldId, MapId, 1, 2)>>, <<"v", "1">>,
       <<"world", WorldId>>, <<"map", MapId>>, <<"slot", "1", "2">>,
       <<"type", "plant">>, <<"crop", "carrot">>, <<"stage", "0">>,
       <<"planted_at", "2">>, <<"t", WorldId>> >>

EmptySlotTags ==
    << <<"d", SlotDOf(WorldId, MapId, 1, 2)>>, <<"v", "1">>,
       <<"world", WorldId>>, <<"map", MapId>>, <<"slot", "1", "2">>,
       <<"type", "empty">>, <<"status", "empty">>,
       <<"last_harvested_at", "2">>, <<"t", WorldId>> >>

ActionTags ==
    << <<"v", "1">>, <<"world", WorldId>>, <<"map", MapId>>,
       <<"slot", "1", "2">>, <<"slot_d", SlotDOf(WorldId, MapId, 1, 2)>>,
       <<"action", "plant">>, <<"expected_rev", "0">>,
       <<"client_nonce", "n1">>, <<"crop", "carrot">>, <<"t", WorldId>> >>

\* a plant as older writers published it: no type tag
LegacyPlantTags ==
    << <<"d", "plant:" \o WorldId \o ":" \o LastSegment(MapId) \o ":1:2">>,
       <<"v", "1">>, <<"world", WorldId>>, <<"map", MapId>>,
       <<"slot", "1", "2">>, <<"crop", "carrot">>, <<"stage", "2">>,
       <<"planted_at", "2">>, <<"t", WorldId>> >>

SampleTagLists ==
    {WorldTags, MapTags, PlantSlotTags, LegacyPlantTags, EmptySlotTags, ActionTags}

\* what any writer can do to a tag list: leave a tag out, leave its value
\* empty, write the slot tag in another way, write a numeric tag that is
\* not a numeral
DropTag(tags, i) == SubSeq(tags, 1, i - 1) \o SubSeq(tags, i + 1, Len(tags))

BlankTag(tags, i) == [tags EXCEPT ![i] = <<tags[i][1], "">>]

SetTag(tags, name, tag) ==
    [i \in 1..Len(tags) |-> IF tags[i][1] = name THEN tag ELSE tags[i]]

SlotTagForms ==
    { <<"slot", "1", "2">>, <<"slot", "1:2">>, <<"slot", "1">>,
      <<"slot", "abc", "2">>, <<"slot", "1x", "2">> }

NumericTagNames == {"stage", "planted_at", "last_harvested_at", "expected_rev"}

NonIntegers == {"abc", "1x"}

Damaged(tags) ==
    {tags}
    \cup { DropTag(tags, i) : i \in 1..Len(tags) }
    \cup { BlankTag(tags, i) : i \in 1..Len(tags) }

SampleEvents ==
    { [kind |-> kind, created_at |-> 1, pubkey |-> "alice",
       tags |-> IF bad = <<>> THEN SetTag(damaged, "slot", slotTag)
                ELSE SetTag(SetTag(damaged, "slot", slotTag), bad[1], bad)] :
        kind \in {KindWorldState, KindMapState, KindSlotState, KindSlotAction},
        damaged \in UNION { Damaged(tags) : tags \in SampleTagLists },
        slotTag \in SlotTagForms,
        bad \in {<<>>} \cup { <<name, s>> : name \in NumericTagNames, s \in NonIntegers } }

DecodeInit ==
    /\ clock = 1
    /\ log = <<>>
    /\ relaySlots = [d \in SlotIds |-> Null]
    /\ cache = Null
    /\ actions = <<>>
    /\ processed = {}
    /\ pass = [p \in Passes |-> IdlePass]
    /\ applied = {}
    /\ keyPubs = [k \in AllKeys |-> 0]
    /\ rejected = {}
    /\ failed = {}
    /\ last \in { [op |-> "input", e |-> e] : e \in SampleEvents }

\* the four decoders on one event of the log, and the queryFn of the
\* 'slotactions' query on a log that holds just this event
Decode ==
    /\ last.op = "input"
    /\ last' = [op |-> "decode", e |-> last.e,
                world |-> parseWorldState(last.e),
                map |-> parseMapState(last.e),
                state |-> parseSlotState(last.e),
                action |-> parseSlotAction(last.e),
                fetched |-> ParseActions(<<last.e>>)]
    /\ UNCHANGED <<clock, log, relaySlots, cache, actions, processed, pass, hist>>

DecodeSpec == DecodeInit /\ [][Decode]_vars

\* --------------------------------------------------- the encoders
\* a plausible slip: the coordinates written as row, column
plantSlot_RowFirst(worldId, mapId, slotX, slotY, cropId, currentSlotState, clientNonce) ==
    LET slotD       == "slot:" \o worldId \o ":" \o LastSegment(mapId) \o ":" \o
                       NumToString(slotX) \o ":" \o NumToString(slotY)
        expectedRev == IF currentSlotState # Null
                       THEN getSlotRevision(currentSlotState) ELSE 0
    IN  [kind |-> KindSlotAction, created_at |-> NoNum,
         tags |-> << <<"v", "1">>, <<"world", worldId>>, <<"map", mapId>>,
                     <<"slot", NumToString(slotY), NumToString(slotX)>>,
                     <<"slot_d", slotD>>, <<"action", "plant">>,
                     <<"expected_rev", NumToString(expectedRev)>>,
                     <<"client_nonce", clientNonce>>, <<"crop", cropId>>,
                     <<"t", worldId>> >>]

\* a plausible slip: the discovery tag filled with the map id
harvestSlot_DiscoveryMap(worldId, mapId, slotX, slotY, currentSlotState, clientNonce) ==
    IF currentSlotState.type # "plant" THEN Throws
    ELSE IF ~TruthyStr(currentSlotState.crop) THEN Throws
    ELSE
    LET slotD       == "slot:" \o worldId \o ":" \o LastSegment(mapId) \o ":" \o
                       NumToString(slotX) \o ":" \o NumToString(slotY)
        expectedRev == getSlotRevision(currentSlotState)
    IN  [kind |-> KindSlotAction, created_at |-> NoNum,
         tags |-> << <<"v", "1">>, <<"world", worldId>>, <<"map", mapId>>,
                     <<"slot", NumToString(slotX), NumToString(slotY)>>,
                     <<"slot_d", slotD>>, <<"action", "harvest">>,
                     <<"expected_rev", NumToString(expectedRev)>>,
                     <<"client_nonce", clientNonce>>, <<"t", mapId>> >>]

\* useSlotActions.plantSlot: the SlotAction event a player's client lays
\* out for planting cropId in cell (slotX, slotY)
plantSlot(worldId, mapId, slotX, slotY, cropId, currentSlotState, clientNonce) ==
    LET slotD       == "slot:" \o worldId \o ":" \o LastSegment(mapId) \o ":" \o
                       NumToString(slotX) \o ":" \o NumToString(slotY)
        expectedRev == IF currentSlotState # Null
                       THEN getSlotRevision(currentSlotState) ELSE 0
    IN  [kind |-> KindSlotAction, created_at |-> NoNum,
         tags |-> << <<"v", "1">>, <<"world", worldId>>, <<"map", mapId>>,
                     <<"slot", NumToString(slotX), NumToString(slotY)>>,
                     <<"slot_d", slotD>>, <<"action", "plant">>,
                     <<"expected_rev", NumToString(expectedRev)>>,
                     <<"client_nonce", clientNonce>>, <<"crop", cropId>>,
                     <<"t", worldId>> >>]

\* useSlotActions.harvestSlot; Throws when the slot is no plant with a crop
harvestSlot(worldId, mapId, slotX, slotY, currentSlotState, clientNonce) ==
    IF currentSlotState.type # "plant" THEN Throws
    ELSE IF ~TruthyStr(currentSlotState.crop) THEN Throws
    ELSE
    LET slotD       == "slot:" \o worldId \o ":" \o LastSegment(mapId) \o ":" \o
                       NumToString(slotX) \o ":" \o NumToString(slotY)
        expectedRev == getSlotRevision(currentSlotState)
    IN  [kind |-> KindSlotAction, created_at |-> NoNum,
         tags |-> << <<"v", "1">>, <<"world", worldId>>, <<"map", mapId>>,
                     <<"slot", NumToString(slotX), NumToString(slotY)>>,
                     <<"slot_d", slotD>>, <<"action", "harvest">>,
                     <<"expected_rev", NumToString(expectedRev)>>,
                     <<"client_nonce", clientNonce>>, <<"t", worldId>> >>]

OtherWorldId == "w2"

\* what the players ask for: a cell, a crop, the slot their view shows there
EncodeInputs ==
    { [op |-> "input", intent |-> intent, worldId |-> worldId, x |-> x, y |-> y,
       cropId |-> cropId, cur |-> currentSlot, nonce |-> nonce, now |-> now] :
        intent \in {"plant", "harvest"}, worldId \in {WorldId, OtherWorldId},
        x \in 0..1, y \in 0..1, cropId \in Crops,
        currentSlot \in SampleSlots, nonce \in Nonces, now \in 1..MaxTime }

EncodeInit ==
    /\ clock = 1
    /\ log = <<>>
    /\ relaySlots = [d \in SlotIds |-> Null]
    /\ cache = Null
    /\ actions = <<>>
    /\ processed = {}
    /\ pass = [p \in Passes |-> IdlePass]
    /\ applied = {}
    /\ keyPubs = [k \in AllKeys |-> 0]
    /\ rejected = {}
    /\ failed = {}
    /\ last \in { i \in EncodeInputs : i.intent = "harvest" => i.cur # Null }

\* a player's client encodes and signs an Action, the authority decodes it,
\* encodes and signs the Slot event of its effect, a reader decodes that
Encode ==
    /\ last.op = "input"
    /\ LET tmpl   == IF last.intent = "plant"
                     THEN plantSlot(last.worldId, MapId, last.x, last.y,
                                    last.cropId, last.cur, last.nonce)
                     ELSE harvestSlot(last.worldId, MapId, last.x, last.y,
                                      last.cur, last.nonce)
           e      == IF tmpl = Throws THEN Null ELSE signEvent(tmpl, last.now, "alice")
           action == IF e = Null THEN Null ELSE parseSlotAction(e)
           slot   == IF action = Null THEN Null ELSE applyAction(action, last.now)
           ev     == IF slot = Null \/ slot = Throws THEN Null
                     ELSE signEvent(slot, last.now, Authority)
       IN  last' = [op |-> "encode", intent |-> last.intent,
                    worldId |-> last.worldId, x |-> last.x, y |-> last.y,
                    cropId |-> last.cropId, cur |-> last.cur,
                    nonce |-> last.nonce, now |-> last.now,
                    e |-> e, action |-> action, ev |-> ev,
                    out |-> IF ev = Null THEN Null ELSE parseSlotState(ev)]
    /\ UNCHANGED <<clock, log, relaySlots, cache, actions, processed, pass, hist>>

EncodeSpec == EncodeInit /\ [][Encode]_vars

\* ------------------------------------------- the stored stage of a slot
\* a plausible slip: the stored stage shown while the crop metadata is missing
PlantSprite_StoredStage(plant, nowSec, cropMeta) ==
    LET plantedAt == IF plant.plantedAt # NoNum THEN plant.plantedAt
                     ELSE plant.event.created_at
    IN  IF cropMeta # Null
        THEN computeGrowthStage(plantedAt, nowSec, cropMeta)
        ELSE plant.stage

\* PlantSprite: the stage whose frame is drawn for a plant (cropMeta is Null
\* when the renderpack has no metadata for the crop)
PlantSprite(plant, nowSec, cropMeta) ==
    LET plantedAt == IF plant.plantedAt # NoNum THEN plant.plantedAt
                     ELSE plant.event.created_at
    IN  IF cropMeta # Null
        THEN computeGrowthStage(plantedAt, nowSec, cropMeta)
        ELSE 0

\* a SlotState event as on the relay, with the legacy stage tag or without
StagedSlotEvent(type, crop, stage, plantedAt, createdAt) ==
    LET e == SlotEvent(type, crop, plantedAt, createdAt)
    IN  [e EXCEPT !.tags = IF stage = Undefined THEN @
                           ELSE @ \o << <<"stage", stage>> >>]

SampleStages == {Undefined, "0", "1", "3"}

SampleRenderMeta ==
    {Null, [stages |-> 4, harvestStage |-> NoNum, stageDurationSec |-> NoNum]}

SampleRenderNow == {2, 400, 1000}

StageInputs ==
    { [op |-> "input", type |-> type, plantedAt |-> plantedAt,
       createdAt |-> createdAt, stageA |-> stageA, stageB |-> stageB,
       action |-> action, now |-> now, meta |-> meta] :
        type \in {"plant", "empty", Undefined},
        plantedAt \in {Undefined, "0", "1", "2"},
        createdAt \in 1..MaxTime,
        stageA \in SampleStages, stageB \in SampleStages,
        action \in SampleActions, now \in SampleRenderNow,
        meta \in SampleRenderMeta }

StageInit ==
    /\ clock = 1
    /\ log = <<>>
    /\ relaySlots = [d \in SlotIds |-> Null]
    /\ cache = Null
    /\ actions = <<>>
    /\ processed = {}
    /\ pass = [p \in Passes |-> IdlePass]
    /\ applied = {}
    /\ keyPubs = [k \in AllKeys |-> 0]
    /\ rejected = {}
    /\ failed = {}
    /\ last \in { i \in StageInputs : i.stageA # i.stageB }

\* what is computed from one decoded slot: the frame drawn for it, its
\* revision, the validator's decision on an Action
Read(slot, action, now, meta) ==
    [slot |-> slot,
     shown |-> IF slot.type = "plant" THEN PlantSprite(slot, now, meta) ELSE NoNum,
     rev |-> getSlotRevision(slot),
     result |-> validateAction(action, slot)]

\* two SlotState events that differ in their stage tag only are decoded and
\* read
ReadBoth ==
    /\ last.op = "input"
    /\ LET a == parseSlotState(StagedSlotEvent(last.type, "carrot", last.stageA,
                                               last.plantedAt, last.createdAt))
           b == parseSlotState(StagedSlotEvent(last.type, "carrot", last.stageB,
                                               last.plantedAt, last.createdAt))
       IN  /\ a # Null /\ b # Null
           /\ last' = [op |-> "read",
                       a |-> Read(a, last.action, last.now, last.meta),
                       b |-> Read(b, last.action, last.now, last.meta)]
    /\ UNCHANGED <<clock, log, relaySlots, cache, actions, processed, pass, hist>>

StageSpec == StageInit /\ [][ReadBoth]_vars

\* ------------------------------------- the poll of an authority for WorldId
\* relay.query([{kinds: [14159], '#t': [worldId], limit: 1000}]): the relay
\* returns the events of that kind that carry a t tag with that value
RelayQueryActions(events, worldId) ==
    SelectSeq(events,
              LAMBDA e : /\ e.kind = KindSlotAction
                         /\ \E i \in 1..Len(e.tags) : e.tags[i] = <<"t", worldId>>)

\* SlotAction events any writer can put on the relay: world and t tags
\* naming this world or another one
TaggedActionEvents ==
    { [e EXCEPT !.tags = SetTag(SetTag(@, "world", <<"world", world>>),
                                "t", <<"t", t>>)] :
        e \in { ActionEvent("alice", "n1", SlotXY, SlotD, k, rev, crop, 1) :
                  k \in ActionKinds, rev \in 0..MaxTime,
                  crop \in Crops \cup {Undefined} },
        world \in {WorldId, OtherWorldId}, t \in {WorldId, OtherWorldId} }

ReconcileInputs ==
    { [op |-> "input", e |-> e, cur |-> currentSlot, now |-> now, acks |-> acks] :
        e \in TaggedActionEvents, currentSlot \in SampleSlots,
        now \in 1..MaxTime, acks \in SUBSET RelayUrls(GAME_RELAYS) }

ReconcileInit ==
    /\ clock = 1
    /\ log = <<>>
    /\ relaySlots = [d \in SlotIds |-> Null]
    /\ cache = Null
    /\ actions = <<>>
    /\ processed = {}
    /\ pass = [p \in Passes |-> IdlePass]
    /\ applied = {}
    /\ keyPubs = [k \in AllKeys |-> 0]
    /\ rejected = {}
    /\ failed = {}
    /\ last \in ReconcileInputs

\* one cycle of the processor running for WorldId on a relay that holds one
\* SlotAction event: the poll, then processActions() on what it returned
\* (cur is the slot the point query finds for the Action's slot_d)
Reconcile ==
    /\ last.op = "input"
    /\ LET fetched == ParseActions(RelayQueryActions(<<last.e>>, WorldId))
           action  == IF fetched = <<>> THEN Null ELSE fetched[1]
           result  == IF action = Null THEN Null
                      ELSE validateAction(action, last.cur)
           tmpl    == IF action = Null THEN Null ELSE applyAction(action, last.now)
           ev      == IF action # Null /\ result.valid /\ tmpl # Throws /\ tmpl # Null
                      THEN signEvent(tmpl, last.now, Authority) ELSE Null
       IN  last' = [op |-> "reconcile", e |-> last.e, fetched |-> fetched,
                    cur |-> last.cur, result |-> result, ev |-> ev,
                    ok |-> ev # Null /\ publishToRelays(GAME_RELAYS, last.acks)]
    /\ UNCHANGED <<clock, log, relaySlots, cache, actions, processed, pass, hist>>

ReconcileSpec == ReconcileInit /\ [][Reconcile]_vars

\* ------------------------------------------- client and authority together
\* SlotState events with the d tag written another way (the plants of
\* TESTING.md are published as plant:<world>:<map>:<x>:<y>)
LegacySlotD == "plant:" \o WorldId \o ":" \o LastSegment(MapId) \o ":0:0"

LegacySlots ==
    { parseSlotState([e EXCEPT !.tags = SetTag(@, "d", <<"d", LegacySlotD>>)]) :
        e \in { SlotEvent(type, "carrot", plantedAt, 1) :
                  type \in {"empty", "plant"}, plantedAt \in {Undefined, "2"} } }

AgreeInit ==
    /\ clock = 1
    /\ log = <<>>
    /\ relaySlots = [d \in SlotIds |-> Null]
    /\ cache = Null
    /\ actions = <<>>
    /\ processed = {}
    /\ pass = [p \in Passes |-> IdlePass]
    /\ applied = {}
    /\ keyPubs = [k \in AllKeys |-> 0]
    /\ rejected = {}
    /\ failed = {}
    /\ last \in { i \in EncodeInputs : i.intent = "harvest" => i.cur # Null }
               \cup { [i EXCEPT !.cur = s] :
                        i \in { j \in EncodeInputs : j.cur = Null },
                        s \in LegacySlots }

\* a player's client emits an Action from its view last.cur of a cell; the
\* authority of that world, whose cache and relay hold that same last.cur,
\* polls the Action and runs processActions() on it: it looks the slot up by
\* the Action's slot_d, validates and applies
Emit ==
    /\ last.op = "input"
    /\ LET tmpl    == IF last.intent = "plant"
                      THEN plantSlot(last.worldId, MapId, last.x, last.y,
                                     last.cropId, last.cur, last.nonce)
                      ELSE harvestSlot(last.worldId, MapId, last.x, last.y,
                                       last.cur, last.nonce)
           e       == IF tmpl = Throws THEN Null ELSE signEvent(tmpl, last.now, "alice")
           fetched == IF e = Null THEN <<>>
                      ELSE ParseActions(RelayQueryActions(<<e>>, last.worldId))
           action  == IF fetched = <<>> THEN Null ELSE fetched[1]
           currentSlot == IF action # Null /\ last.cur # Null
                             /\ last.cur.id = action.slotD
                          THEN last.cur ELSE Null
           result  == IF action = Null THEN Null
                      ELSE validateAction(action, currentSlot)
           slot    == IF action = Null THEN Null ELSE applyAction(action, last.now)
       IN  last' = [op |-> "emit", intent |-> last.intent,
                    worldId |-> last.worldId, x |-> last.x, y |-> last.y,
                    cur |-> last.cur, e |-> e, action |-> action,
                    found |-> currentSlot, result |-> result,
                    accepted |-> /\ action # Null /\ result.valid
                                 /\ slot # Throws /\ slot # Null]
    /\ UNCHANGED <<clock, log, relaySlots, cache, actions, processed, pass, hist>>

AgreeSpec == AgreeInit /\ [][Emit]_vars

\* ------------------------------------------------------ useNostrPublish
\* the mutationFn of useNostrPublish: Throws when no user is logged in
\* (user is Undefined), the signed event otherwise
publishEvent(t, now, user) ==
    IF user = Undefined THEN Throws ELSE signEvent(t, now, user)

SignNow == {1000, 2000}

\* created_at as callers provide it, relative to the time of signing
SignOffsets == {0 - 1000, 0 - 1, 0, 1, 299, 300, 301, 1000}

SignProvided(now) == {NoNum} \cup { now + d : d \in SignOffsets } \cup SignNow

SignInputs ==
    UNION { { [op |-> "input", t |-> [kind |-> kind, created_at |-> provided, tags |-> <<>>],
               now |-> now, user |-> user, acks |-> acks] :
                kind \in {KindSlotState, KindSlotAction},
                provided \in SignProvided(now),
                user \in {Undefined, "alice"},
                acks \in SUBSET RelayUrls(GAME_RELAYS) } : now \in SignNow }

SignInit ==
    /\ clock = 1
    /\ log = <<>>
    /\ relaySlots = [d \in SlotIds |-> Null]
    /\ cache = Null
    /\ actions = <<>>
    /\ processed = {}
    /\ pass = [p \in Passes |-> IdlePass]
    /\ applied = {}
    /\ keyPubs = [k \in AllKeys |-> 0]
    /\ rejected = {}
    /\ failed = {}
    /\ last \in SignInputs

\* one call of the mutation: sign, then publish to the game relays
Sign ==
    /\ last.op = "input"
    /\ LET event == publishEvent(last.t, last.now, last.user)
       IN  last' = [op |-> "sign", provided |-> last.t.created_at,
                    now |-> last.now, user |-> last.user,
                    event |-> IF event = Throws THEN Null ELSE event,
                    sent |-> IF event = Throws THEN {} ELSE last.acks,
                    ok |-> event # Throws /\ publishToRelays(GAME_RELAYS, last.acks)]
    /\ UNCHANGED <<clock, log, relaySlots, cache, actions, processed, pass, hist>>

SignSpec == SignInit /\ [][Sign]_vars

\* ------------------------------------------------------ world selection
\* null of a string | null value (localStorage.getItem, currentWorldId)
NullId == ""

WorldIds == {WorldId, OtherWorldId, "w3"}

\* what the world list query can return: worlds newest first, none twice
WorldLists ==
    { ws \in UNION { [1..n -> WorldIds] : n \in 0..3 } :
        \A i, j \in 1..Len(ws) : i # j => ws[i] # ws[j] }

\* localStorage after setLastWorldId(worldId): null removes the item
setLastWorldId(worldId) == worldId

getLastWorldId(item) == item

\* the setting is on unless the stored item is something other than 'true'
getAutoOpenLastWorld(item) == IF item = NullId THEN TRUE ELSE item = "true"

\* the auto-open effect of GameView: the current world after it has run
autoOpenEffect(user, worlds, currentWorldId, autoOpenItem, lastItem) ==
    IF ~user \/ worlds.status # "loaded" \/ currentWorldId # NullId
    THEN currentWorldId
    ELSE LET ws            == worlds.data
             autoOpenEnabled == getAutoOpenLastWorld(autoOpenItem)
             lastWorldId   == getLastWorldId(lastItem)
         IN  IF Len(ws) = 1 THEN ws[1]
             ELSE IF Len(ws) > 1 /\ autoOpenEnabled /\ lastWorldId # NullId
                  THEN IF \E i \in 1..Len(ws) : ws[i] = lastWorldId
                       THEN lastWorldId
                       ELSE ws[1]
                  ELSE currentWorldId

\* the world list query of a user: disabled without a pubkey
QueryStart(user) ==
    [status |-> IF user THEN "loading" ELSE "idle", data |-> <<>>]

\* the application just mounted for the first time, nobody logged in and
\* localStorage empty: `last` holds the state of the page, the two
\* localStorage items, the world the user picked (picked) and, after a
\* reload and until the world list settles, the world that a user with
\* several worlds and auto-open on had picked before it (restarted)
AppInit ==
    /\ clock = 1
    /\ log = <<>>
    /\ relaySlots = [d \in SlotIds |-> Null]
    /\ cache = Null
    /\ actions = <<>>
    /\ processed = {}
    /\ pass = [p \in Passes |-> IdlePass]
    /\ applied = {}
    /\ keyPubs = [k \in AllKeys |-> 0]
    /\ rejected = {}
    /\ failed = {}
    /\ last = [op |-> "app", user |-> FALSE, worlds |-> QueryStart(FALSE),
               currentWorldId |-> NullId,
               lastWorldId |-> setLastWorldId(NullId),
               autoOpen |-> NullId,
               picked |-> NullId, restarted |-> NullId]

AppUnchanged == UNCHANGED <<clock, log, relaySlots, cache, actions, processed, pass, hist>>

\* a render with a new current world: GameProvider's effect stores it
Commit(s, currentWorldId) ==
    [s EXCEPT !.currentWorldId = currentWorldId,
              !.lastWorldId = IF currentWorldId # s.currentWorldId
                              THEN setLastWorldId(currentWorldId) ELSE @]

\* WorldsList / world picker: onClick={() => setCurrentWorldId(world.id)}
SelectWorld ==
    /\ last.op = "app" /\ last.user /\ last.worlds.status = "loaded"
    /\ \E i \in 1..Len(last.worlds.data) :
           last' = [Commit(last, last.worlds.data[i])
                        EXCEPT !.picked = last.worlds.data[i], !.restarted = NullId]
    /\ AppUnchanged

\* GameSettings.handleAutoOpenChange
SetAutoOpen ==
    /\ last.op = "app"
    /\ \E checked \in BOOLEAN :
           last' = [last EXCEPT !.autoOpen = IF checked THEN "true" ELSE "false"]
    /\ AppUnchanged

\* the page is loaded again: React state starts over, localStorage stays;
\* the effects of the first render run, GameView's (worlds not loaded:
\* nothing) and then GameProvider's, setLastWorldId(currentWorldId)
Mount ==
    /\ last.op = "app"
    /\ LET fresh == [last EXCEPT !.currentWorldId = NullId,
                                 !.worlds = QueryStart(last.user)]
           opened == autoOpenEffect(fresh.user, fresh.worlds, fresh.currentWorldId,
                                    fresh.autoOpen, fresh.lastWorldId)
       IN  last' = [fresh EXCEPT !.currentWorldId = opened,
                                 !.lastWorldId = setLastWorldId(opened),
                                 !.picked = NullId,
                                 !.restarted =
                                     IF /\ last.worlds.status = "loaded"
                                        /\ Len(last.worlds.data) > 1
                                        /\ getAutoOpenLastWorld(last.autoOpen)
                                     THEN last.picked ELSE NullId]
    /\ AppUnchanged

\* the world list query settles (first load or refetch); the auto-open
\* effect runs on the new list
WorldsLoaded ==
    /\ last.op = "app" /\ last.user
    /\ \E ws \in WorldLists :
           LET s == [last EXCEPT !.worlds = [status |-> "loaded", data |-> ws],
                                 !.restarted = NullId]
           IN  last' = Commit(s, autoOpenEffect(s.user, s.worlds, s.currentWorldId,
                                                s.autoOpen, s.lastWorldId))
    /\ AppUnchanged

Login ==
    /\ last.op = "app" /\ ~last.user
    /\ last' = [last EXCEPT !.user = TRUE, !.worlds = QueryStart(TRUE)]
    /\ AppUnchanged

Logout ==
    /\ last.op = "app" /\ last.user
    /\ last' = [last EXCEPT !.user = FALSE, !.worlds = QueryStart(FALSE)]
    /\ AppUnchanged

AppNext ==
    \/ SelectWorld
    \/ SetAutoOpen
    \/ Mount
    \/ WorldsLoaded
    \/ Login
    \/ Logout

AppSpec == AppInit /\ [][AppNext]_vars

\* ================================================================ claims
Evaluated == last.op = "eval"

IsPlantSlot(slot) == slot # Null /\ slot.type = "plant"
IsEmptySlot(slot) == slot # Null /\ slot.type = "empty"
HasCrop(slot)     == slot # Null /\ TruthyStr(slot.crop)
RevMatches(action, slot) ==
    slot # Null /\ action.expectedRev = getSlotRevision(slot)

RequiredAcked(acks) ==
    \E i \in 1..Len(GAME_RELAYS) : GAME_RELAYS[i].required /\ GAME_RELAYS[i].url \in acks

\* C1: of two plant Actions with different dedup keys that target the same
\* Slot id and claim the same expectedRev, at most one is ever applied (the
\* first evaluated is accepted and published, the other is rejected).
C1_OnePlantPerRevision ==
    \A e1, e2 \in applied :
        LET a1 == parseSlotAction(e1)
            a2 == parseSlotAction(e2)
        IN  ~ /\ a1.action = "plant" /\ a2.action = "plant"
              /\ actionKey(a1) # actionKey(a2)
              /\ a1.slotD = a2.slotD
              /\ a1.expectedRev = a2.expectedRev

\* C2: for one dedup key at most one SlotState event is published, however
\* many Actions carry the key and in whichever cycles they are fetched.
C2_OnePublishPerKey == \A k \in AllKeys : keyPubs[k] <= 1

\* C3: a dedup key enters the processed set either because the validator
\* rejected the Action or after the publish of its SlotState succeeded with a
\* required relay accepting it; a failed point query and a failed publish add
\* nothing to the processed set and record no rejection.
C3_MarkedOnlyAfterPublish ==
    [][ /\ \A k \in processed' \ processed :
             \/ /\ last'.op = "eval"
                /\ actionKey(last'.action) = k
                /\ ~last'.result.valid
             \/ /\ last'.op = "publish"
                /\ last'.key = k
                /\ RequiredAcked(last'.acks)
        /\ (\/ last'.op = "queryfail"
            \/ last'.op = "publish" /\ ~RequiredAcked(last'.acks))
           => processed' = processed /\ rejected' = rejected
      ]_vars

C3_Witness ==
    /\ last.op = "publish"
    /\ ~RequiredAcked(last.acks)
    /\ last.key \notin processed

\* C4: after an apply step failed transiently, the next polling cycle
\* evaluates the Action again, also when the poll fetches no new Action.
C4_FailedApplyRetried == ~(last.op = "poll" /\ last.missed)

\* C5: a key the validator rejected stays in the processed set, and no later
\* step of this run accepts an Action with that key or publishes a SlotState
\* for it.
C5_RejectedKeyIsFinal ==
    /\ rejected \subseteq processed
    /\ (Evaluated /\ last.rejectedBefore) => ~last.result.valid
    /\ (last.op = "publish" /\ last.ok) => last.key \notin rejected

\* C6: an Action that was already applied and is evaluated again against the
\* Slot state current at that moment is rejected.
C6_ReplayRejected ==
    (Evaluated /\ last.again /\ last.cur = last.latest) => ~last.result.valid

\* C7: a harvest is accepted if and only if a current Slot exists, is a
\* plant, carries a crop and expectedRev equals its revision; every
\* rejection carries a reason.
C7_HarvestAcceptedIff ==
    (Evaluated /\ last.action.action = "harvest") =>
        /\ last.result.valid <=>
               /\ IsPlantSlot(last.cur)
               /\ HasCrop(last.cur)
               /\ RevMatches(last.action, last.cur)
        /\ ~last.result.valid => TruthyStr(last.result.reason)

C7_Witness ==
    /\ Evaluated /\ last.action.action = "harvest" /\ last.result.valid
    /\ last.cur.plantedAt = last.action.expectedRev

\* C8: a plant is accepted if and only if it carries a crop id and either the
\* current Slot exists, is empty and expectedRev equals its revision, or no
\* current Slot exists and expectedRev is 0.
C8_PlantAcceptedIff ==
    (Evaluated /\ last.action.action = "plant") =>
        (last.result.valid <=>
            /\ TruthyStr(last.action.crop)
            /\ \/ IsEmptySlot(last.cur) /\ RevMatches(last.action, last.cur)
               \/ last.cur = Null /\ last.action.expectedRev = 0)

C8_Witness ==
    /\ Evaluated /\ last.action.action = "plant" /\ last.result.valid
    /\ IsEmptySlot(last.cur)

\* C9: an Action whose kind is neither plant nor harvest is rejected as
\* unknown, its key is marked processed, and no SlotState is published for it.
C9_UnknownKindRejected ==
    /\ (Evaluated /\ last.action.action \notin {"plant", "harvest"}) =>
           /\ ~last.result.valid
           /\ last.result.reason = "Unknown action type"
           /\ actionKey(last.action) \in processed
    /\ \A p \in Passes :
           pass[p].pc = "publish" =>
               pass[p].list[pass[p].idx].action \in {"plant", "harvest"}
    /\ \A e \in applied : getTag(e, "action") \in {"plant", "harvest"}

C9_Witness ==
    /\ Evaluated /\ last.action.action = "water"
    /\ actionKey(last.action) \in processed

\* C10: the Slot handed to the validator is the latest SlotState event on the
\* relay for the Action's slot_d (absent when there is none).
C10_ValidatedAgainstLatest == Evaluated => last.cur = last.latest

\* C11: no two processActions() passes have an apply step (a validated Action
\* whose SlotState publish is awaited) in flight for the same Slot id.
C11_OneApplyInFlight ==
    \A p, q \in Passes :
        (/\ p # q
         /\ pass[p].pc = "publish"
         /\ pass[q].pc = "publish")
        => pass[p].list[pass[p].idx].slotD # pass[q].list[pass[q].idx].slotD

Applied == last.op = "apply" /\ last.result.valid /\ last.ok

\* C12: after a plant Action with crop c was accepted and applied at time t,
\* the current Slot decodes as a plant with crop c, plantedAt t and stage 0,
\* and its revision is plantedAt.
C12_PlantedSlot ==
    (Applied /\ last.action.action = "plant") =>
        /\ last.out # Null
        /\ last.out.type = "plant"
        /\ last.out.crop = last.action.crop
        /\ last.out.plantedAt = last.now
        /\ last.out.stage = 0
        /\ getSlotRevision(last.out) = last.out.plantedAt

C12_Witness ==
    /\ Applied /\ last.action.action = "plant"
    /\ last.cur = Null /\ last.action.expectedRev = 0
    /\ last.out # Null /\ last.out.crop = "carrot" /\ last.out.plantedAt = MaxTime

\* C13: after a harvest Action with expectedRev T was accepted on a Slot
\* planted at T and applied at time t, the current Slot has the id, world,
\* map and coordinates it had, decodes as empty, has no crop, and has
\* lastHarvestedAt t.
C13_HarvestedSlot ==
    (/\ Applied /\ last.action.action = "harvest"
     /\ last.cur.plantedAt = last.action.expectedRev) =>
        /\ last.out # Null
        /\ last.out.id = last.cur.id
        /\ last.out.worldId = last.cur.worldId
        /\ last.out.mapId = last.cur.mapId
        /\ last.out.slot = last.cur.slot
        /\ last.out.type = "empty"
        /\ last.out.crop = Undefined
        /\ last.out.lastHarvestedAt = last.now

\* C15: the revision of a plant Slot is its plantedAt, whatever integer that
\* is; the revision of a Slot of any other kind is its event's created_at.
C15_RevisionOfSlot ==
    (last.op = "apply" /\ last.cur # Null) =>
        last.curRev = IF last.cur.type = "plant" THEN last.cur.plantedAt
                      ELSE last.cur.event.created_at

\* C17: the d tag of every SlotState event the authority publishes is the
\* Slot id derived from the world, map and coordinates of that same event.
C17_SlotIdDerived ==
    (last.op = "apply" /\ last.ev # Null /\ last.ok) =>
        LET s == parseSlotState(last.ev)
        IN  /\ s # Null
            /\ s.id = SlotDOf(s.worldId, s.mapId, s.slot.x, s.slot.y)

\* C14: a step in which the validator rejects an Action names the revision
\* mismatch as the reason when the revision is what failed, starts no
\* publish, and leaves the SlotState events on the relay as they were.
C14_RejectionChangesNothing ==
    [][ (last'.op = "eval" /\ ~last'.result.valid) =>
          /\ relaySlots' = relaySlots
          /\ applied' = applied
          /\ keyPubs' = keyPubs
          /\ \A p \in Passes : pass'[p].pc = "publish" => pass[p] = pass'[p]
          /\ LET a == last'.action
                 s == last'.cur
             IN  (/\ s # Null
                  /\ a.expectedRev # getSlotRevision(s)
                  /\ \/ a.action = "harvest" /\ IsPlantSlot(s) /\ HasCrop(s)
                     \/ a.action = "plant" /\ TruthyStr(a.crop))
                 => last'.result.reason = "Revision mismatch"
      ]_vars

C14_Witness ==
    /\ Evaluated /\ ~last.result.valid
    /\ last.action.action = "harvest"
    /\ IsPlantSlot(last.cur)
    /\ last.action.expectedRev < getSlotRevision(last.cur)
    /\ last.result.reason = "Revision mismatch"
    /\ PointQuery(relaySlots, last.action.slotD) = last.latest

\* C16: the SlotState events on the relay change only in a step in which the
\* authority publishes the outcome of an Action it accepted.
C16_SlotsChangeOnlyByAcceptedActions ==
    [][ relaySlots' # relaySlots => (last'.op = "publish" /\ last'.ok) ]_vars

C19_StageNonDecreasing ==
    last.op = "computeGrowthStage" => JsLessEq(last.stage1, last.stage2)

\* C20: the computed stage is a number from 0 to
\* min(stages - 1, harvestStage ?? stages - 1).
C20_StageInRange ==
    last.op = "computeGrowthStage" =>
        LET maxStage == last.meta.stages - 1
            top == IF last.meta.harvestStage = NoNum \/ maxStage < last.meta.harvestStage
                   THEN maxStage ELSE last.meta.harvestStage
        IN  \A stage \in {last.stage1, last.stage2} :
                JsLessEq(0, stage) /\ JsLessEq(stage, top)

\* C21: the stage is 0 while now < plantedAt; from plantedAt on it is
\* floor((now - plantedAt) / duration) clamped into the stage range
\* 0 .. min(stages - 1, harvestStage ?? stages - 1), where duration is
\* stageDurationSec when positive and 300 seconds otherwise.
C21_StageFormula ==
    last.op = "computeGrowthStage" =>
        LET meta     == last.meta
            duration == IF meta.stageDurationSec # NoNum /\ meta.stageDurationSec > 0
                        THEN meta.stageDurationSec ELSE 300
            maxStage == meta.stages - 1
            top      == IF meta.harvestStage = NoNum \/ maxStage < meta.harvestStage
                        THEN maxStage ELSE meta.harvestStage
            Clamped(v) == IF v < 0 THEN 0 ELSE IF v > top THEN top ELSE v
            Expected(now) ==
                IF now < last.plantedAt THEN 0
                ELSE Clamped((now - last.plantedAt) \div duration)
        IN  /\ last.plantedAt # NaN
            /\ last.stage1 = Expected(last.now1)
            /\ last.stage2 = Expected(last.now2)

\* C22: the countdown is null exactly when the current stage has reached
\* min(stages - 1, harvestStage ?? stages - 1); otherwise it is a number
\* r >= 0 such that the stage at now + r is the current stage plus one and
\* the stage at every time from now to now + r - 1 is the current stage.
C22_CountdownFloorConsistent ==
    last.op = "computeSecondsUntilNextStage" =>
        LET meta     == last.meta
            maxStage == meta.stages - 1
            top      == IF meta.harvestStage = NoNum \/ maxStage < meta.harvestStage
                        THEN maxStage ELSE meta.harvestStage
            r        == last.remaining.value
        IN  /\ last.currentStage # NaN
            /\ (last.remaining = Null) <=> (last.currentStage >= top)
            /\ last.remaining # Null =>
                 /\ r # NaN /\ r >= 0
                 /\ computeGrowthStage(last.plantedAt, last.now + r, meta)
                        = last.currentStage + 1
                 /\ \A t \in last.now .. (last.now + r - 1) :
                        computeGrowthStage(last.plantedAt, t, meta) = last.currentStage

\* C23: an event whose slot tag is the joined string "1:2" decodes, with
\* parseSlotState and with parseSlotAction alike, whenever the same event
\* with the two scalar values "1", "2" decodes, and to the same pair (1, 2).
C23_BothSlotEncodings ==
    (last.op = "decode" /\ FindTag(last.e, "slot") = <<"slot", "1:2">>) =>
        LET scalar == [last.e EXCEPT !.tags = SetTag(@, "slot", <<"slot", "1", "2">>)]
            slot   == parseSlotState(scalar)
            action == parseSlotAction(scalar)
        IN  /\ slot # Null =>
                 /\ last.state # Null
                 /\ last.state.slot = slot.slot
                 /\ last.state.slot = [x |-> 1, y |-> 2]
            /\ action # Null =>
                 /\ last.action # Null
                 /\ last.action.slot = action.slot
                 /\ last.action.slot = [x |-> 1, y |-> 2]

\* C24: an event in which a numeric tag (a coordinate of the slot tag,
\* expected_rev, stage, planted_at, last_harvested_at) is present with a
\* value that is not an integer numeral decodes to no Slot and no Action.
C24_NonIntegerInvalidates ==
    LET IsNumeral(s) == \E n \in Numerals : NumToString(n) = s
        BadNumber(tag) ==
            \/ /\ tag[1] \in NumericTagNames
               /\ Len(tag) >= 2 /\ tag[2] # "" /\ ~IsNumeral(tag[2])
            \/ /\ tag[1] = "slot" /\ Len(tag) = 3
               /\ (~IsNumeral(tag[2]) \/ ~IsNumeral(tag[3]))
    IN  (last.op = "decode" /\ \E i \in 1..Len(last.e.tags) : BadNumber(last.e.tags[i]))
            => (last.state = Null /\ last.action = Null)

\* C25: each decoder returns no entity when the event's kind is not its
\* discriminant (31415, 31416, 31417, 14159) or when a required tag is
\* missing or empty, and an event that is no Action is not among the
\* Actions the processor's query hands to the loop.
C25_NoEntityOnMismatch ==
    LET Missing(name) == getTag(last.e, name) \in {Undefined, ""}
        SlotMissing   == FindTag(last.e, "slot") = <<>> \/ Missing("slot")
    IN  last.op = "decode" =>
          /\ ( \/ last.e.kind # 31415
               \/ \E n \in {"d", "v", "type", "name", "renderpack_url", "entry_map"} :
                     Missing(n) )
             => last.world = Null
          /\ ( \/ last.e.kind # 31416
               \/ \E n \in {"d", "v", "world", "layout", "renderpack_url"} : Missing(n) )
             => last.map = Null
          /\ ( \/ last.e.kind # 31417
               \/ \E n \in {"d", "v", "world", "map"} : Missing(n)
               \/ SlotMissing
               \/ (getTag(last.e, "type") # "empty" /\ Missing("crop")) )
             => last.state = Null
          /\ ( \/ last.e.kind # 14159
               \/ \E n \in {"v", "world", "map", "slot_d", "action", "expected_rev",
                            "client_nonce"} : Missing(n)
               \/ SlotMissing )
             => last.action = Null
          /\ last.action = Null => last.fetched = <<>>

C25_Witness ==
    /\ last.op = "decode"
    /\ last.e.kind = KindSlotAction
    /\ FindTag(last.e, "client_nonce") = <<>>
    /\ \A n \in {"v", "world", "map", "slot_d", "action", "expected_rev"} :
          TruthyStr(getTag(last.e, n))
    /\ FindTag(last.e, "slot") = <<"slot", "1", "2">>
    /\ last.action = Null
    /\ last.fetched = <<>>

\* C26: decoding the Action event that plantSlot or harvestSlot encoded gives
\* back the target Slot id, version, world id, map id, coordinates, action
\* kind, expectedRev, client nonce and crop that went in; decoding the Slot
\* event the authority encoded for it gives back the id, version, world id,
\* map id, coordinates, kind, and crop and plantedAt or lastHarvestedAt.
C26_RoundTrip ==
    (last.op = "encode" /\ last.e # Null) =>
        LET a == last.action
            s == last.out
        IN  /\ a # Null
            /\ a.slotD = SlotDOf(last.worldId, MapId, last.x, last.y)
            /\ a.version = "1"
            /\ a.worldId = last.worldId
            /\ a.mapId = MapId
            /\ a.slot = [x |-> last.x, y |-> last.y]
            /\ a.action = last.intent
            /\ a.expectedRev = (IF last.cur = Null THEN 0 ELSE getSlotRevision(last.cur))
            /\ a.clientNonce = last.nonce
            /\ a.crop = (IF last.intent = "plant" THEN last.cropId ELSE Undefined)
            /\ s # Null
            /\ s.id = a.slotD
            /\ s.version = "1"
            /\ s.worldId = a.worldId
            /\ s.mapId = a.mapId
            /\ s.slot = a.slot
            /\ last.intent = "plant" =>
                 s.type = "plant" /\ s.crop = a.crop /\ s.plantedAt = last.now
            /\ last.intent = "harvest" =>
                 s.type = "empty" /\ s.lastHarvestedAt = last.now

C26_Witness ==
    /\ last.op = "encode"
    /\ last.intent = "harvest"
    /\ last.x = 1 /\ last.y = 0
    /\ last.action # Null /\ last.action.expectedRev = 2
    /\ last.out # Null /\ last.out.lastHarvestedAt = 2

\* C27: the Action event a player's client encoded and the Slot event the
\* authority encoded each carry a t tag whose value is the value of the
\* event's own world tag.
C27_DiscoveryTagIsWorld ==
    (last.op = "encode" /\ last.e # Null) =>
        /\ TruthyStr(getTag(last.e, "t"))
        /\ getTag(last.e, "t") = getTag(last.e, "world")
        /\ last.ev # Null =>
             /\ TruthyStr(getTag(last.ev, "t"))
             /\ getTag(last.ev, "t") = getTag(last.ev, "world")

C27_Witness ==
    /\ last.op = "encode"
    /\ last.worldId = OtherWorldId
    /\ last.e # Null /\ getTag(last.e, "t") = OtherWorldId
    /\ last.ev # Null /\ getTag(last.ev, "t") = OtherWorldId

\* C28: two decoded Slots that differ in their stored stage only get the same
\* stage drawn, have the same revision, and get the same decision from the
\* validator on any Action.
C28_StoredStageIgnored ==
    last.op = "read" =>
        /\ last.a.shown = last.b.shown
        /\ last.a.rev = last.b.rev
        /\ last.a.result = last.b.result

C28_Witness ==
    /\ last.op = "read"
    /\ last.a.slot.type = "plant"
    /\ last.a.slot.stage = 0 /\ last.b.slot.stage = 3
    /\ [last.a.slot EXCEPT !.stage = 3, !.event = last.b.slot.event] = last.b.slot
    /\ last.a.shown = 1 /\ last.b.shown = 1
    /\ last.a.result.valid /\ last.b.result.valid

\* C29: every Action that is applied (its Slot event is published) leaves the
\* Slot with a revision strictly greater than the revision it had before, an
\* absent Slot counting as revision 0.
C29_RevisionStrictlyIncreases ==
    [][ (last'.op = "publish" /\ last'.ok) =>
          \A d \in SlotIds :
              relaySlots'[d] # relaySlots[d] =>
                  getSlotRevision(PointQuery(relaySlots', d))
                      > (IF relaySlots[d] = Null THEN 0
                         ELSE getSlotRevision(PointQuery(relaySlots, d))) ]_vars

\* C30: a Slot event the authority for world w1 publishes has world tag w1 and
\* t tag w1, and an Action its poll returned whose world is another one is
\* not applied.
C30_OnlyOwnWorld ==
    (last.op = "reconcile" /\ last.ok) =>
        /\ getTag(last.ev, "world") = WorldId
        /\ getTag(last.ev, "t") = WorldId
        /\ last.fetched[1].worldId = WorldId

\* C31: a harvest Action that harvestSlot emitted from a view S (a plant with
\* a crop), and a plant Action that plantSlot emitted from a view S that is
\* absent or empty, is accepted when the slot the authority resolves for the
\* cell is that same S.
C31_ClientAndAuthorityAgree ==
    LET ViewOfCell ==
            \/ last.cur = Null
            \/ /\ last.cur.worldId = last.worldId
               /\ last.cur.mapId = MapId
               /\ last.cur.slot = [x |-> last.x, y |-> last.y]
    IN  (last.op = "emit" /\ ViewOfCell) =>
          /\ (last.intent = "harvest" /\ last.e # Null) => last.accepted
          /\ (last.intent = "plant" /\ (last.cur = Null \/ last.cur.type = "empty"))
                => last.accepted

\* C32: a kind-31417 event without a type tag and with a crop tag decodes as
\* a plant Slot whose plantedAt is what parseInt reads from its planted_at
\* tag when it has one (the numeral's value when the tag is a numeral) and
\* the event's created_at otherwise; a kind-31417 event whose
\* type is not empty and that has no crop tag decodes to no entity.
C32_LegacyPlant ==
    LET e          == last.e
        Has(name)  == TruthyStr(getTag(e, name))
        IsNumeral(s) == \E n \in Numerals : NumToString(n) = s
        Decodable  == /\ e.kind = 31417
                      /\ \A n \in {"d", "v", "world", "map"} : Has(n)
                      /\ FindTag(e, "slot") \in {<<"slot", "1", "2">>, <<"slot", "1:2">>}
                      /\ Has("stage") => IsNumeral(getTag(e, "stage"))
    IN  last.op = "decode" =>
          /\ (Decodable /\ FindTag(e, "type") = <<>> /\ Has("crop")) =>
                /\ last.state # Null
                /\ last.state.type = "plant"
                /\ last.state.crop = getTag(e, "crop")
                /\ IF Has("planted_at")
                   THEN /\ last.state.plantedAt = ParseInt(getTag(e, "planted_at"))
                        /\ IsNumeral(getTag(e, "planted_at")) =>
                              NumToString(last.state.plantedAt) = getTag(e, "planted_at")
                   ELSE last.state.plantedAt = e.created_at
          /\ (e.kind = 31417 /\ getTag(e, "type") # "empty" /\ ~Has("crop")) =>
                last.state = Null

C32_Witness ==
    /\ last.op = "decode"
    /\ last.e.kind = KindSlotState
    /\ FindTag(last.e, "type") = <<>>
    /\ FindTag(last.e, "planted_at") = <<>>
    /\ getTag(last.e, "crop") = "carrot"
    /\ last.state # Null
    /\ last.state.type = "plant"
    /\ last.state.plantedAt = last.e.created_at

\* C33: an event signed through useNostrPublish has created_at <= now + 300:
\* a provided created_at above now + 300 becomes now, any other provided
\* created_at is kept, a missing one becomes now; with no user logged in
\* nothing is signed and nothing is sent to a relay.
C33_TimestampHardened ==
    last.op = "sign" =>
        IF last.user = Undefined
        THEN last.event = Null /\ last.sent = {} /\ ~last.ok
        ELSE /\ last.event # Null
             /\ last.event.pubkey = last.user
             /\ last.event.created_at <= last.now + 300
             /\ last.provided = NoNum => last.event.created_at = last.now
             /\ (last.provided # NoNum /\ last.provided > last.now + 300)
                    => last.event.created_at = last.now
             /\ (last.provided # NoNum /\ last.provided <= last.now + 300)
                    => last.event.created_at = last.provided

C33_Witness ==
    /\ last.op = "sign"
    /\ last.user = "alice"
    /\ last.provided = last.now + 301
    /\ last.event # Null /\ last.event.created_at = last.now
    /\ last.sent # {}

\* C34: a world W selected by a user with several worlds is still the stored
\* last-world id after the application is restarted, and when the world list
\* then loads with W in it, auto-open enabled and no world selected, W
\* becomes the current world.
C34_LastWorldReopens ==
    /\ [](last.op = "app" /\ last.restarted # NullId
              => last.lastWorldId = last.restarted)
    /\ [][(/\ last.op = "app" /\ last.restarted # NullId
           /\ getAutoOpenLastWorld(last.autoOpen)
           /\ last.currentWorldId = NullId
           /\ last.worlds.status = "loading"
           /\ last'.worlds.status = "loaded"
           /\ Len(last'.worlds.data) > 1
           /\ \E i \in 1..Len(last'.worlds.data) : last'.worlds.data[i] = last.restarted)
              => last'.currentWorldId = last.restarted]_vars

====
